---- MODULE Spec2Model ----
(***************************************************************************)
(* A model of the resumable batch pipeline                                 *)
(* (gemini_batch_processing/create_job.py), of the rate-limited worker     *)
(* pool (core/generators/generator.py), of the bundle builder              *)
(* (core/knowledge/bundle_builder.py), of the result parser                *)
(* (gemini_batch_processing/parser.py) and of the bundle validator         *)
(* (core/knowledge/validate_bundles.py) of agri_data_gen.                  *)
(*                                                                         *)
(* SpecBatch is the batch pipeline: the cursor file, the partitioner       *)
(* create_jsonl_batches, the runner submit_wait_download and the __main__  *)
(* driver, over several process runs with kills and restarts.              *)
(* SpecPool is the worker pool: RateLimiter, GenerationEngine.generate_all *)
(* and its worker threads, over a discrete clock counted in seconds;       *)
(* SpecPoolRuns is the same over several launches of the script.           *)
(* SpecReaders is the reading of one bundle file by both programs, from   *)
(* any cursor.                                                             *)
(* SpecRetry is one call of _call_provider_with_retry against a provider   *)
(* whose every answer is chosen freely, with the sleeps it asks for kept.  *)
(* SpecCursor is create_jsonl_batches started on any content of the       *)
(* cursor file.                                                            *)
(* SpecBuilder is BundleBuilder.build_all over every taxonomy collection   *)
(* up to a size, built once or again, and after the collection is emptied. *)
(* SpecParser is extract over every pair of a request file and a result    *)
(* file up to a size.                                                      *)
(* SpecPoolResumed is one launch of the worker pool over an output file    *)
(* that holds a record already; SpecPoolFair is one launch with threads    *)
(* that keep running and sleeps that end.                                  *)
(* SpecMissingInput is the batch pipeline whose bundle file may be removed *)
(* between launches.                                                       *)
(* SpecValidator is BatchValidator.run_pipeline over every input up to a   *)
(* size, with every outcome of the calls of the service.                   *)
(***************************************************************************)
EXTENDS Integers, Sequences, FiniteSets, TLC

\* ------------------------------------------------------------------ bounds
\* Longest bundle file explored.
MaxLines == 3
\* Number of process launches of the batch driver explored.
MaxRuns == 3
\* Scaled-down stand-ins for the token budget and the per-request estimate.
MAX_TOKENS_PER_BATCH == 5
EST_TOKENS_PER_REQ == 2

\* Longest bundle file explored by the worker pool.
PoolLines == 2
\* Number of generate_all runs explored.
MaxPoolRuns == 2
\* Seconds of one generate_all run that are explored.
MaxTime == 6
\* Reading of time.time() when a process is launched.
Epoch == 60
\* GenerationEngine(max_workers=...): threads of the pool.
max_workers == 2

\* Most documents, entries, nested lists and list items in a taxonomy
\* collection explored.
MaxNodes == 11
\* Most build_all runs against one state of the collection explored.
MaxBuildRuns == 2
\* Most lines of batch_requests.jsonl explored.
MaxRequests == 3
\* Most results and response parts, together, in raw_results.jsonl.
MaxResultNodes == 5

\* The validator: bundles in its input file, bundles per request file
\* (BATCH_SIZE), and queries of a job that find it unfinished or fail.
MaxBundles == 3

BATCH_SIZE == 2

MaxPolls == 2

MAX_REQS_PER_BATCH == MAX_TOKENS_PER_BATCH \div EST_TOKENS_PER_REQ

\* ------------------------------------------------------ program constants
\* GenerationEngine(rpm_limit=10)
rpm_limit == 10
\* _call_provider_with_retry(prompt, retries=3)
retries == 3
base_delay == 10
\* time.sleep(2) of the server-error branch
server_error_sleep == 2

VARIABLES
  \* ---- files on disk
  bundle_file,      \* data/bundles/bundles.jsonl: a sequence of lines
  cursor_file,      \* data/cursor.txt
  input_exists,     \* os.path.exists of the bundle file
  \* ---- the batch driver process
  pc,               \* where the __main__ driver stands
  start_index,      \* create_jsonl_batches: value read from the cursor file
  files,            \* batch files returned by create_jsonl_batches
  final_cursor_pos, \* second component of its result
  success_count,    \* driver's counter
  job_state,        \* submit_wait_download: state of the current batch
  results_saved,    \* batch numbers of this run whose result file was written
  remote_jobs,      \* the service: state of each batch job this run created
  runs,             \* number of process launches so far
  \* ---- history of the batch pipeline
  rendered_runs,    \* line -> number of runs that rendered it into an envelope
  confirmed_lines,  \* lines whose batch reached SUCCEEDED with its result saved
  clean,            \* every run so far ended with all batches succeeded
  prev_run,         \* how the previous run ended, and what it had partitioned
  uploaded,         \* batch numbers this run uploaded, in the order of upload
  client_errors,    \* the client calls of this run that threw, in order
  \* ---- the worker pool process
  out_file,         \* data/generated/data.jsonl: the chunks written to it
  synced,           \* length of the prefix of out_file forced to storage
  clock,            \* time.time(), in seconds
  last_call,        \* RateLimiter.last_call
  limiter_lock,     \* RateLimiter.lock: 0, or the thread holding it
  file_lock,        \* GenerationEngine.file_lock: 0, or the thread holding it
  gpc,              \* where generate_all stands
  work_items,       \* generate_all: the filtered list of line numbers
  queue,            \* executor: submitted tasks no thread has taken yet
  result,           \* line number -> state or result of its future
  thread,           \* pool thread -> its local state
  pool_runs,        \* number of generate_all runs so far
  \* ---- history of the worker pool
  base_len,         \* length of out_file when the run started
  last_generate,    \* start time of the latest provider.generate call
  exhausted,        \* items whose task ended with "Max retries exceeded"
  \* ---- one call of _call_provider_with_retry against a scripted provider
  retry_call,       \* its position, its attempt, and what it did so far
  \* ---- the bundle builder
  taxonomies,       \* the active taxonomy documents: group -> its entries
  output_file,      \* out_dir/bundles.jsonl as build_all leaves it
  bpc,              \* how the latest build_all ended; "idle" before the first
  build_runs,       \* build_all runs against the collection as it is now
  count,            \* the count build_all printed
  file_before,      \* history: output_file when the latest run began
  \* ---- the result parser (gemini_batch_processing/parser.py)
  parse_run,        \* the two streams extract reads and what it produced
  \* ---- the bundle validator (core/knowledge/validate_bundles.py)
  validation        \* one run_pipeline run: the service, the files, the calls

input_vars == <<input_exists>>

batch_vars == <<bundle_file, cursor_file, pc, start_index, files,
                final_cursor_pos, success_count, job_state, results_saved,
                runs, rendered_runs, confirmed_lines, clean, prev_run,
                remote_jobs, uploaded, client_errors>>

pool_vars == <<out_file, synced, clock, last_call, limiter_lock, file_lock,
               gpc, work_items, queue, result, thread, pool_runs, base_len,
               last_generate, exhausted>>

retry_vars == <<retry_call>>

builder_vars == <<taxonomies, output_file, bpc, build_runs, count,
                  file_before>>

parser_vars == <<parse_run>>

validator_vars == <<validation>>

vars == <<batch_vars, pool_vars, retry_vars, builder_vars, parser_vars,
          validator_vars, input_vars>>

\* ------------------------------------------------------------ bundle file
\* A line is either the bundle the builder wrote there (line i holds the
\* bundle with id i) or text json.loads rejects (garbage, or a blank line).
Lines == {"bundle", "garbage"}

BundleFiles == UNION {[1..n -> Lines] : n \in 1..MaxLines}

\* json.loads(line.strip()) succeeds
ParsesAsJson(line) == line = "bundle"

\* ------------------------------------------------------------ cursor file
CursorAbsent == [kind |-> "absent", n |-> 0]
CursorGarbage == [kind |-> "garbage", n |-> 0]
CursorInt(k) == [kind |-> "int", n |-> k]

\* _get_start_index: 0 when the file is absent or is not an integer
GetStartIndex(cf) == IF cf.kind = "int" THEN cf.n ELSE 0

\* _update_cursor: the file now holds str(new_index)
UpdateCursor(new_index) == CursorInt(new_index)

\* ------------------------------------------------------------ partitioner
\* The object json.loads returns for a bundle line: the builder gave the
\* bundle on line i the id i.
BundleOnLine(i) == [id |-> i]

\* str(n) for an integer n >= 0: its decimal digits, as characters.
DecimalDigits == <<"0", "1", "2", "3", "4", "5", "6", "7", "8", "9">>

RECURSIVE Str(_)
Str(n) ==
  IF n < 10 THEN <<DecimalDigits[n + 1]>>
  ELSE Str(n \div 10) \o <<DecimalDigits[(n % 10) + 1]>>

\* A slip: the default name "req_<position>" is taken although the bundle
\* has an id.
RequestEntryByPosition(i) ==
  [custom_id |-> <<"r", "e", "q", "_">> \o Str(i), line |-> i]

\* The request envelope rendered from the bundle on line i: custom_id is
\* str(bundle.get('id', ...)); line remembers the position it was read
\* from.
RequestEntry(i) == [custom_id |-> Str(BundleOnLine(i)["id"]), line |-> i]

\* A slip: a batch is written once it holds more than the limit.
RECURSIVE BatchLoopLate(_, _, _, _, _)
BatchLoopLate(lines, i, current_batch_reqs, created_files, total_processed) ==
  IF i > Len(lines)
  THEN [created_files |-> IF current_batch_reqs # <<>>
                          THEN Append(created_files, current_batch_reqs)
                          ELSE created_files,
        total_processed |-> total_processed]
  ELSE IF ParsesAsJson(lines[i])
       THEN LET reqs == Append(current_batch_reqs, RequestEntry(i)) IN
            IF Len(reqs) > MAX_REQS_PER_BATCH
            THEN BatchLoopLate(lines, i + 1, <<>>, Append(created_files, reqs),
                               total_processed + 1)
            ELSE BatchLoopLate(lines, i + 1, reqs, created_files,
                               total_processed + 1)
       ELSE BatchLoopLate(lines, i + 1, current_batch_reqs, created_files,
                          total_processed)

\* A slip: the list of requests is not emptied after a batch is written.
RECURSIVE BatchLoopKept(_, _, _, _, _)
BatchLoopKept(lines, i, current_batch_reqs, created_files, total_processed) ==
  IF i > Len(lines)
  THEN [created_files |-> IF current_batch_reqs # <<>>
                          THEN Append(created_files, current_batch_reqs)
                          ELSE created_files,
        total_processed |-> total_processed]
  ELSE IF ParsesAsJson(lines[i])
       THEN LET reqs == Append(current_batch_reqs, RequestEntry(i)) IN
            IF Len(reqs) >= MAX_REQS_PER_BATCH
            THEN BatchLoopKept(lines, i + 1, reqs,
                                  Append(created_files, reqs),
                                  total_processed + 1)
            ELSE BatchLoopKept(lines, i + 1, reqs, created_files,
                                  total_processed + 1)
       ELSE BatchLoopKept(lines, i + 1, current_batch_reqs, created_files,
                             total_processed)

\* The loop of create_jsonl_batches over the lines that islice leaves,
\* i being the position of the next line: a line that does not parse is
\* skipped without counting, a full batch is written and a new one started.
RECURSIVE BatchLoop(_, _, _, _, _)
BatchLoop(lines, i, current_batch_reqs, created_files, total_processed) ==
  IF i > Len(lines)
  THEN [created_files |-> IF current_batch_reqs # <<>>
                          THEN Append(created_files, current_batch_reqs)
                          ELSE created_files,
        total_processed |-> total_processed]
  ELSE IF ParsesAsJson(lines[i])
       THEN LET reqs == Append(current_batch_reqs, RequestEntry(i)) IN
            IF Len(reqs) >= MAX_REQS_PER_BATCH
            THEN BatchLoop(lines, i + 1, <<>>, Append(created_files, reqs),
                           total_processed + 1)
            ELSE BatchLoop(lines, i + 1, reqs, created_files,
                           total_processed + 1)
       ELSE BatchLoop(lines, i + 1, current_batch_reqs, created_files,
                      total_processed)

\* A slip: the start index is left out of the returned cursor.
NewCursorFromZero(start, total_processed) == total_processed

\* The cursor value create_jsonl_batches returns.
NewCursor(start, total_processed) == start + total_processed

\* Lines of the bundle file rendered into the envelopes of batch files fs.
LinesOf(fs) ==
  UNION {{fs[k][j].line : j \in 1..Len(fs[k])} : k \in 1..Len(fs)}

\* create_jsonl_batches on a bundle file with the cursor file cf: the batch
\* files, the count of parsed lines and the cursor it returns. It writes
\* batch files only; the cursor file is left to the caller.
\* start_index lines are skipped by islice before the loop.
CreateBatchesResult(lines, cf) ==
  LET start == GetStartIndex(cf)
      r == BatchLoop(lines, start + 1, <<>>, <<>>, 0)
  IN [start_index |-> start,
      created_files |-> r.created_files,
      total_processed |-> r.total_processed,
      new_cursor |-> NewCursor(start, r.total_processed)]

\* ------------------------------------------------- worker pool: the data
\* RateLimiter.__init__: self.delay = 60.0 / max_calls_per_minute
delay == 60 \div rpm_limit

Workers == 1..max_workers

\* A pool thread that runs no task.
IdleThread == [pc |-> "idle", item |-> 0, attempt |-> 0, wake |-> 0,
               sleep_arg |-> 0, buffer |-> <<>>]

\* No provider.generate call was started yet.
NoCall == -1

\* The text json.dumps(combined_record) + "\n" of the record of line
\* line_idx, as the pieces in which the stream hands it to the file.
RecordChunks(line_idx) == <<[id |-> line_idx, part |-> 1],
                           [id |-> line_idx, part |-> 2]>>

\* The lines "for line in f" yields for a file of chunks: a line ends with
\* the chunk that carries the newline; text after the last newline is a
\* last line.
RECURSIVE FileLines(_, _)
FileLines(f, cur) ==
  IF f = <<>> THEN (IF cur = <<>> THEN <<>> ELSE <<cur>>)
  ELSE IF Head(f).part = 2
       THEN <<Append(cur, Head(f))>> \o FileLines(Tail(f), <<>>)
       ELSE FileLines(Tail(f), Append(cur, Head(f)))

\* json.loads(line) succeeds: the line is one whole record.
IsRecordLine(line) == Len(line) = 2 /\ line = RecordChunks(line[1].id)

\* The object json.loads returns for a record line: the keys the worker
\* wrote, id and output.
ParsedRecord(line) == [id |-> line[1].id, output |-> "response"]

\* The records of the parseable lines of an output file.
Records(f) ==
  LET ls == FileLines(f, <<>>) IN
  {ParsedRecord(ls[k]) : k \in {j \in 1..Len(ls) : IsRecordLine(ls[j])}}

\* _load_processed_ids: the bundle_id of every record that has that key.
LoadProcessedIds(f) ==
  {rec["bundle_id"] : rec \in {r \in Records(f) : "bundle_id" \in DOMAIN r}}

\* bundle.get("bundle_id", f"row_{idx}") for the bundle of line idx: the
\* builder writes no bundle_id key, so the default is taken.
BundleId(idx) == <<"row", idx>>

\* A slip: the scan of the bundle file ends at the first line that does
\* not parse.
RECURSIVE WorkItemsUntilBad(_, _, _)
WorkItemsUntilBad(lines, processed_ids, idx) ==
  IF idx > Len(lines) THEN <<>>
  ELSE IF ~ ParsesAsJson(lines[idx]) THEN <<>>
  ELSE IF BundleId(idx) \notin processed_ids
       THEN <<idx>> \o WorkItemsUntilBad(lines, processed_ids, idx + 1)
       ELSE WorkItemsUntilBad(lines, processed_ids, idx + 1)

\* generate_all: the (line, idx) pairs, numbered from 1, whose line parses
\* and whose b_id is not in processed_ids, in file order.
RECURSIVE WorkItems(_, _, _)
WorkItems(lines, processed_ids, idx) ==
  IF idx > Len(lines) THEN <<>>
  ELSE IF ParsesAsJson(lines[idx]) /\ BundleId(idx) \notin processed_ids
       THEN <<idx>> \o WorkItems(lines, processed_ids, idx + 1)
       ELSE WorkItems(lines, processed_ids, idx + 1)

\* The worker pool before GenerationEngine is used.
PoolQuiet ==
  /\ out_file = <<>>
  /\ synced = 0
  /\ clock = Epoch
  /\ last_call = 0
  /\ limiter_lock = 0
  /\ file_lock = 0
  /\ gpc = "start"
  /\ work_items = <<>>
  /\ queue = <<>>
  /\ result = [i \in 1..Len(bundle_file) |-> "none"]
  /\ thread = [w \in Workers |-> IdleThread]
  /\ pool_runs = 1
  /\ base_len = 0
  /\ last_generate = NoCall
  /\ exhausted = {}

\* _call_provider_with_retry when it is entered: the first attempt is about
\* to call the provider; nothing was called, slept or caught yet.
RetryStart == [pc |-> "call", attempt |-> 0, calls |-> 0, sleeps |-> <<>>,
               errors |-> <<>>]

RetryQuiet == retry_call = RetryStart

\* ---------------------------------------------------- bundle builder: data
\* BundleBuilder.__init__: the axes multiplied freely, in this order, and
\* the groups whose entries carry a nested list.
INDEPENDENT_AXES == <<"growth_stage", "weather", "soil_type",
                      "farming_practice">>
DEPENDENT_GROUPS == <<"crop", "region_lang">>

Groups == {INDEPENDENT_AXES[k] : k \in 1..Len(INDEPENDENT_AXES)}
            \cup {DEPENDENT_GROUPS[k] : k \in 1..Len(DEPENDENT_GROUPS)}

\* The key of the nested list build_all enumerates in an entry of group g.
NestedKey(g) == IF g = "crop" THEN "problems" ELSE "languages"

\* The collection with no document.
NoTaxonomies == [g \in {} |-> <<>>]

\* No file at output_path.
NoFile == [exists |-> FALSE, lines |-> <<>>]

\* dict.get(key, default)
Get(d, key, default) == IF key \in DOMAIN d THEN d[key] ELSE default

\* a copy of dict d after del d[key]
Del(d, key) == [k \in DOMAIN d \ {key} |-> d[k]]

\* a dict d after d[key] = value
Put(d, key, value) ==
  [k \in DOMAIN d \cup {key} |-> IF k = key THEN value ELSE d[k]]

RECURSIVE Flatten(_)
Flatten(ss) == IF ss = <<>> THEN <<>> ELSE Head(ss) \o Flatten(Tail(ss))

RECURSIVE SeqSum(_)
SeqSum(q) == IF q = <<>> THEN 0 ELSE Head(q) + SeqSum(Tail(q))

\* Documents, entries, nested lists and list items of a collection.
EntryNodes(e) ==
  1 + (IF DOMAIN e \cap {"languages", "problems"} = {} THEN 0
       ELSE 1 + Len(Get(e, "languages", <<>>)) + Len(Get(e, "problems", <<>>)))

GroupNodes(entries) ==
  1 + SeqSum([k \in 1..Len(entries) |-> EntryNodes(entries[k])])

Nodes(tax) ==
  LET gs == DOMAIN tax
      RECURSIVE Sum(_)
      Sum(S) == IF S = {} THEN 0
                ELSE LET g == CHOOSE x \in S : TRUE
                     IN GroupNodes(tax[g]) + Sum(S \ {g})
  IN Sum(gs)

BuilderQuiet ==
  /\ taxonomies = NoTaxonomies
  /\ output_file = NoFile
  /\ bpc = "idle"
  /\ build_runs = 0
  /\ count = 0
  /\ file_before = NoFile

\* ------------------------------------------------------ result parser: data
\* extract before it is called: no line in either stream yet.
ParseStart ==
  [pc |-> "idle", batch_requests |-> <<>>, raw_results |-> <<>>,
   warned |-> FALSE, parsed_data |-> <<>>]

ParserQuiet == parse_run = ParseStart

\* --------------------------------------------------- bundle validator: data
\* BatchValidator before run_pipeline is called. called, jobs, returned and
\* parsed list the batch indexes process_single_batch was called for, a
\* job was created for, the values it returned, and the indexes
\* parse_and_append_results was called for; before holds the lengths of
\* the three output files when the latest parse began.
ValidationStart ==
  [pc |-> "idle", all_bundles |-> <<>>, request_files |-> <<>>, index |-> 0,
   polls |-> 0, called |-> <<>>, jobs |-> <<>>, returned |-> <<>>,
   result_file |-> <<>>, parsed |-> <<>>,
   before |-> [valid |-> 0, weak |-> 0, invalid |-> 0],
   valid_output |-> <<>>, weak_valid_output |-> <<>>,
   invalid_output |-> <<>>]

ValidatorQuiet == validation = ValidationStart

\* ---------------------------------------------------------------- driver
NoRun == [outcome |-> "none", files |-> <<>>, start_index |-> 0]

\* The batch driver before create_jsonl_batches is called.
BatchQuiet ==
  /\ pc = "start"
  /\ start_index = 0
  /\ files = <<>>
  /\ final_cursor_pos = 0
  /\ success_count = 0
  /\ job_state = "NONE"
  /\ results_saved = {}
  /\ runs = 1
  /\ rendered_runs = [i \in 1..Len(bundle_file) |-> 0]
  /\ confirmed_lines = {}
  /\ clean = TRUE
  /\ prev_run = NoRun
  /\ remote_jobs = <<>>
  /\ uploaded = <<>>
  /\ client_errors = <<>>

InitBatch ==
  /\ bundle_file \in BundleFiles
  /\ cursor_file \in {CursorAbsent, CursorGarbage}
  /\ input_exists = TRUE
  /\ BatchQuiet
  /\ PoolQuiet
  /\ RetryQuiet
  /\ BuilderQuiet
  /\ ParserQuiet
  /\ ValidatorQuiet

\* A slip: the partitioner itself stores the cursor it is about to return.
CreateJsonlBatchesSavingCursor ==
  /\ pc = "start"
  /\ input_exists
  /\ LET r == CreateBatchesResult(bundle_file, cursor_file) IN
     /\ start_index' = r.start_index
     /\ IF r.total_processed = 0
        THEN /\ pc' = "exit_nowork"
             /\ files' = <<>>
             /\ final_cursor_pos' = 0
             /\ job_state' = "NONE"
             /\ cursor_file' = cursor_file
        ELSE /\ pc' = "loop"
             /\ files' = r.created_files
             /\ final_cursor_pos' = r.new_cursor
             /\ job_state' = "CREATED"
             /\ cursor_file' = UpdateCursor(r.new_cursor)
     /\ rendered_runs' = [i \in DOMAIN rendered_runs |->
                            IF i \in LinesOf(r.created_files)
                            THEN rendered_runs[i] + 1 ELSE rendered_runs[i]]
  /\ success_count' = 0
  /\ results_saved' = {}
  /\ UNCHANGED <<pool_vars, retry_vars, builder_vars,
                 parser_vars, validator_vars, input_vars>>
  /\ UNCHANGED <<bundle_file, runs, confirmed_lines, clean, prev_run,
                 remote_jobs, uploaded, client_errors>>

\* The value create_jsonl_batches returns for the result r of its loop:
\* None when no line was parsed, else the pair (created_files, new cursor).
ReturnedResult(r) ==
  IF r.total_processed = 0 THEN <<"None">>
  ELSE <<r.created_files, r.new_cursor>>

\* itertools.islice(infile, start_index, None) with a negative start_index
\* raises ValueError; nothing catches it and the process ends.
IsliceRaises ==
  /\ pc = "start"
  /\ input_exists
  /\ GetStartIndex(cursor_file) < 0
  /\ start_index' = GetStartIndex(cursor_file)
  /\ pc' = "raised"
  /\ clean' = FALSE
  /\ UNCHANGED <<pool_vars, retry_vars, builder_vars,
                 parser_vars, validator_vars, input_vars>>
  /\ UNCHANGED <<bundle_file, cursor_file, files, final_cursor_pos,
                 success_count, job_state, results_saved, runs,
                 rendered_runs, confirmed_lines, prev_run, remote_jobs,
                 uploaded, client_errors>>

\* result = processor.create_jsonl_batches(...); None ends the process with
\* "No new data to process", otherwise the driver unpacks the result.
\* islice accepts the start index read from the cursor file.
CreateJsonlBatches ==
  /\ pc = "start"
  /\ input_exists
  /\ GetStartIndex(cursor_file) >= 0
  /\ LET r == CreateBatchesResult(bundle_file, cursor_file) IN
     /\ start_index' = r.start_index
     /\ IF r.total_processed = 0
        THEN /\ pc' = "exit_nowork"
             /\ files' = <<>>
             /\ final_cursor_pos' = 0
             /\ job_state' = "NONE"
        ELSE /\ pc' = "loop"
             /\ files' = r.created_files
             /\ final_cursor_pos' = r.new_cursor
             /\ job_state' = "CREATED"
     /\ rendered_runs' = [i \in DOMAIN rendered_runs |->
                            IF i \in LinesOf(r.created_files)
                            THEN rendered_runs[i] + 1 ELSE rendered_runs[i]]
  /\ success_count' = 0
  /\ results_saved' = {}
  /\ UNCHANGED <<pool_vars, retry_vars, builder_vars,
                 parser_vars, validator_vars, input_vars>>
  /\ UNCHANGED <<bundle_file, cursor_file, runs, confirmed_lines, clean,
                 prev_run,
                 remote_jobs, uploaded, client_errors>>

\* The batch file the loop of the driver is at.
CurrentBatch == success_count + 1

\* submit_wait_download: client.files.upload returned.
Upload ==
  /\ pc = "loop" /\ job_state = "CREATED"
  /\ job_state' = "UPLOADED"
  /\ uploaded' = Append(uploaded, CurrentBatch)
  /\ UNCHANGED <<pool_vars, retry_vars, builder_vars,
                 parser_vars, validator_vars, input_vars>>
  /\ UNCHANGED <<bundle_file, cursor_file, pc, start_index, files,
                 final_cursor_pos, success_count, results_saved, runs,
                 rendered_runs, confirmed_lines, clean, prev_run,
                 remote_jobs, client_errors>>

\* submit_wait_download: client.batches.create returned; the service now
\* has one more job, which it starts as pending.
CreateJob ==
  /\ pc = "loop" /\ job_state = "UPLOADED"
  /\ job_state' = "SUBMITTED"
  /\ remote_jobs' = Append(remote_jobs, "JOB_STATE_PENDING")
  /\ UNCHANGED <<pool_vars, retry_vars, builder_vars,
                 parser_vars, validator_vars, input_vars>>
  /\ UNCHANGED <<bundle_file, cursor_file, pc, start_index, files,
                 final_cursor_pos, success_count, results_saved, runs,
                 rendered_runs, confirmed_lines, clean, prev_run,
                 uploaded, client_errors>>

\* States client.batches.get may report.
NonTerminal == {"JOB_STATE_PENDING", "JOB_STATE_RUNNING"}
JobStates == NonTerminal \cup {"JOB_STATE_SUCCEEDED", "JOB_STATE_FAILED",
                               "JOB_STATE_CANCELLED"}

Terminal == JobStates \ NonTerminal

\* The state client.batches.get reports for the job of the current batch.
BatchesGet == remote_jobs[Len(remote_jobs)]

\* The service moves a job on: pending to running, or to one of the
\* terminal states. (Followed while the process that created it runs.)
JobAdvances ==
  /\ pc = "loop"
  /\ remote_jobs # <<>>
  /\ BatchesGet \in NonTerminal
  /\ \E st \in JobStates :
       /\ st # "JOB_STATE_PENDING"
       /\ st # BatchesGet
       /\ remote_jobs' = [remote_jobs EXCEPT ![Len(remote_jobs)] = st]
  /\ UNCHANGED <<pool_vars, retry_vars, builder_vars,
                 parser_vars, validator_vars, input_vars>>
  /\ UNCHANGED <<bundle_file, cursor_file, pc, start_index, files,
                 final_cursor_pos, success_count, job_state, results_saved,
                 runs, rendered_runs, confirmed_lines, clean, prev_run,
                 uploaded, client_errors>>

\* A slip: a job still running is taken for a failed one.
PollWaitingGivingUp ==
  /\ pc = "loop" /\ job_state \in {"SUBMITTED"} \cup NonTerminal
  /\ BatchesGet \in NonTerminal
  /\ job_state' = BatchesGet
  /\ pc' = IF BatchesGet = "JOB_STATE_RUNNING" THEN "after_loop" ELSE pc
  /\ UNCHANGED <<pool_vars, retry_vars, builder_vars,
                 parser_vars, validator_vars, input_vars>>
  /\ UNCHANGED <<bundle_file, cursor_file, start_index, files,
                 final_cursor_pos, success_count, results_saved, runs,
                 rendered_runs, confirmed_lines, clean, prev_run,
                 remote_jobs, uploaded, client_errors>>

\* One turn of the polling loop that sees a non-terminal state and sleeps.
PollWaiting ==
  /\ pc = "loop" /\ job_state \in {"SUBMITTED"} \cup NonTerminal
  /\ BatchesGet \in NonTerminal
  /\ job_state' = BatchesGet
  /\ UNCHANGED <<pool_vars, retry_vars, builder_vars,
                 parser_vars, validator_vars, input_vars>>
  /\ UNCHANGED <<bundle_file, cursor_file, pc, start_index, files,
                 final_cursor_pos, success_count, results_saved, runs,
                 rendered_runs, confirmed_lines, clean, prev_run,
                 remote_jobs, uploaded, client_errors>>

\* The poll sees JOB_STATE_SUCCEEDED: the loop breaks.
PollSucceeded ==
  /\ pc = "loop" /\ job_state \in {"SUBMITTED"} \cup NonTerminal
  /\ BatchesGet = "JOB_STATE_SUCCEEDED"
  /\ job_state' = "JOB_STATE_SUCCEEDED"
  /\ UNCHANGED <<pool_vars, retry_vars, builder_vars,
                 parser_vars, validator_vars, input_vars>>
  /\ UNCHANGED <<bundle_file, cursor_file, pc, start_index, files,
                 final_cursor_pos, success_count, results_saved, runs,
                 rendered_runs, confirmed_lines, clean, prev_run,
                 remote_jobs, uploaded, client_errors>>

\* A slip: after a failed batch the driver goes on to the next file.
PollFailedGoingOn ==
  /\ pc = "loop" /\ job_state \in {"SUBMITTED"} \cup NonTerminal
  /\ BatchesGet \in {"JOB_STATE_FAILED", "JOB_STATE_CANCELLED"}
  /\ IF CurrentBatch < Len(files)
     THEN /\ job_state' = "CREATED"
          /\ pc' = "loop"
          /\ success_count' = success_count + 1
     ELSE /\ job_state' = BatchesGet
          /\ pc' = "after_loop"
          /\ success_count' = success_count
  /\ clean' = FALSE
  /\ UNCHANGED <<pool_vars, retry_vars, builder_vars,
                 parser_vars, validator_vars, input_vars>>
  /\ UNCHANGED <<bundle_file, cursor_file, start_index, files,
                 final_cursor_pos, results_saved, runs, rendered_runs,
                 confirmed_lines, prev_run, remote_jobs, uploaded,
                 client_errors>>

\* The poll sees FAILED or CANCELLED: submit_wait_download returns False,
\* the driver logs the failure and breaks out of its loop.
PollFailed ==
  /\ pc = "loop" /\ job_state \in {"SUBMITTED"} \cup NonTerminal
  /\ BatchesGet \in {"JOB_STATE_FAILED", "JOB_STATE_CANCELLED"}
  /\ job_state' = BatchesGet
  /\ pc' = "after_loop"
  /\ clean' = FALSE
  /\ UNCHANGED <<pool_vars, retry_vars, builder_vars,
                 parser_vars, validator_vars, input_vars>>
  /\ UNCHANGED <<bundle_file, cursor_file, start_index, files,
                 final_cursor_pos, success_count, results_saved, runs,
                 rendered_runs, confirmed_lines, prev_run,
                 remote_jobs, uploaded, client_errors>>

\* A slip: success is reported without the result file being written.
DownloadSkipped ==
  /\ pc = "loop" /\ job_state = "JOB_STATE_SUCCEEDED"
  /\ success_count' = success_count + 1
  /\ IF success_count + 1 < Len(files)
     THEN pc' = "loop" /\ job_state' = "CREATED"
     ELSE pc' = "after_loop" /\ job_state' = "NONE"
  /\ UNCHANGED <<pool_vars, retry_vars, builder_vars,
                 parser_vars, validator_vars, input_vars>>
  /\ UNCHANGED <<bundle_file, cursor_file, start_index, files,
                 final_cursor_pos, results_saved, runs, rendered_runs,
                 confirmed_lines, clean, prev_run, remote_jobs, uploaded,
                 client_errors>>

\* The result blob is downloaded and written under output/, and
\* submit_wait_download returns True: the driver counts the batch and goes
\* on to the next file, or leaves the loop after the last one.
Download ==
  /\ pc = "loop" /\ job_state = "JOB_STATE_SUCCEEDED"
  /\ results_saved' = results_saved \cup {CurrentBatch}
  /\ confirmed_lines' = confirmed_lines \cup LinesOf(<<files[CurrentBatch]>>)
  /\ success_count' = success_count + 1
  /\ IF success_count + 1 < Len(files)
     THEN pc' = "loop" /\ job_state' = "CREATED"
     ELSE pc' = "after_loop" /\ job_state' = "NONE"
  /\ UNCHANGED <<pool_vars, retry_vars, builder_vars,
                 parser_vars, validator_vars, input_vars>>
  /\ UNCHANGED <<bundle_file, cursor_file, start_index, files,
                 final_cursor_pos, runs, rendered_runs, clean, prev_run,
                 remote_jobs, uploaded, client_errors>>

\* A slip: the cursor is written whatever the number of succeeded batches.
FinishAlways ==
  /\ pc = "after_loop"
  /\ cursor_file' = UpdateCursor(final_cursor_pos)
  /\ pc' = IF success_count = Len(files) THEN "exit_ok" ELSE "exit_partial"
  /\ UNCHANGED <<pool_vars, retry_vars, builder_vars,
                 parser_vars, validator_vars, input_vars>>
  /\ UNCHANGED <<bundle_file, start_index, files, final_cursor_pos,
                 success_count, job_state, results_saved, runs,
                 rendered_runs, confirmed_lines, clean, prev_run,
                 remote_jobs, uploaded, client_errors>>

\* "Update Cursor": written only if every returned batch file succeeded.
Finish ==
  /\ pc = "after_loop"
  /\ IF success_count = Len(files)
     THEN /\ cursor_file' = UpdateCursor(final_cursor_pos)
          /\ pc' = "exit_ok"
     ELSE /\ cursor_file' = cursor_file
          /\ pc' = "exit_partial"
  /\ UNCHANGED <<pool_vars, retry_vars, builder_vars,
                 parser_vars, validator_vars, input_vars>>
  /\ UNCHANGED <<bundle_file, start_index, files, final_cursor_pos,
                 success_count, job_state, results_saved, runs,
                 rendered_runs, confirmed_lines, clean, prev_run,
                 remote_jobs, uploaded, client_errors>>

\* The call of the inference client submit_wait_download is at.
ClientCall ==
  CASE job_state = "CREATED" -> "files.upload"
    [] job_state = "UPLOADED" -> "batches.create"
    [] job_state = "JOB_STATE_SUCCEEDED" -> "files.download"
    [] OTHER -> "batches.get"

\* A call of the inference client raises (upload, job creation, state
\* query or download): nothing in submit_wait_download or in the driver
\* catches it, and the process ends with the exception.
ClientRaises ==
  /\ pc = "loop"
  /\ pc' = "raised"
  /\ clean' = FALSE
  /\ client_errors' = Append(client_errors, ClientCall)
  /\ UNCHANGED <<pool_vars, retry_vars, builder_vars,
                 parser_vars, validator_vars, input_vars>>
  /\ UNCHANGED <<bundle_file, cursor_file, start_index, files,
                 final_cursor_pos, success_count, job_state, results_saved,
                 runs, rendered_runs, confirmed_lines, prev_run,
                 remote_jobs, uploaded>>

\* The process is killed after create_jsonl_batches returned and before
\* the driver reached its cursor update.
Crash ==
  /\ pc \in {"loop", "after_loop"}
  /\ pc' = "crashed"
  /\ clean' = FALSE
  /\ UNCHANGED <<pool_vars, retry_vars, builder_vars,
                 parser_vars, validator_vars, input_vars>>
  /\ UNCHANGED <<bundle_file, cursor_file, start_index, files,
                 final_cursor_pos, success_count, job_state, results_saved,
                 runs, rendered_runs, confirmed_lines, prev_run,
                 remote_jobs, uploaded, client_errors>>

Ended == {"exit_nowork", "exit_ok", "exit_partial", "raised", "crashed"}

\* The operator launches the driver again: a new TextBatchJob, a new
\* output directory; only the files on disk carry over.
Restart ==
  /\ pc \in Ended
  /\ runs < MaxRuns
  /\ runs' = runs + 1
  /\ prev_run' = [outcome |-> pc, files |-> files, start_index |-> start_index]
  /\ pc' = "start"
  /\ start_index' = 0
  /\ files' = <<>>
  /\ final_cursor_pos' = 0
  /\ success_count' = 0
  /\ job_state' = "NONE"
  /\ results_saved' = {}
  /\ remote_jobs' = <<>>
  /\ uploaded' = <<>>
  /\ client_errors' = <<>>
  /\ UNCHANGED <<pool_vars, retry_vars, builder_vars,
                 parser_vars, validator_vars, input_vars>>
  /\ UNCHANGED <<bundle_file, cursor_file, rendered_runs, confirmed_lines,
                 clean>>

NextBatch ==
  \/ CreateJsonlBatches
  \/ Upload
  \/ CreateJob
  \/ JobAdvances
  \/ PollWaiting
  \/ PollSucceeded
  \/ PollFailed
  \/ Download
  \/ Finish
  \/ ClientRaises
  \/ Crash
  \/ Restart

SpecBatch == InitBatch /\ [][NextBatch]_vars

\* The steps of a run in which every call of the inference client answers
\* and the process is not killed.
NextAnswered ==
  \/ CreateJsonlBatches
  \/ Upload
  \/ CreateJob
  \/ JobAdvances
  \/ PollWaiting
  \/ PollSucceeded
  \/ PollFailed
  \/ Download
  \/ Finish
  \/ Restart

\* The same runs with a process that keeps running: time.sleep(180)
\* returns and the next query is made, and a step of the runner that can
\* be taken is taken in the end. Nothing is asked of the service: a job
\* may stay pending or running for ever.
SpecBatchFair ==
  /\ InitBatch
  /\ [][NextAnswered]_vars
  /\ WF_vars(PollWaiting)
  /\ WF_vars(PollSucceeded)
  /\ WF_vars(PollFailed)
  /\ WF_vars(Download)

\* ------------------------------------------------- batch pipeline: claims
\* The value _get_start_index would read from the cursor file now.
CursorValue == GetStartIndex(cursor_file)

\* C1: at every point of any sequence of runs (crashed and partly failed
\* ones included) every parseable bundle line the persisted cursor counts
\* belongs to a batch that reached SUCCEEDED and had its result saved, and
\* the cursor file is written by the driver's final step only, when every
\* batch file of the run has succeeded and been saved; create_jsonl_batches
\* never writes it.
CursorCountsOnlyConfirmed ==
  /\ [](\A i \in 1..CursorValue :
          /\ i <= Len(bundle_file)
          /\ ParsesAsJson(bundle_file[i]) => i \in confirmed_lines)
  /\ [][cursor_file' # cursor_file =>
          /\ pc = "after_loop"
          /\ success_count = Len(files)
          /\ results_saved = 1..Len(files)]_vars

C1Witness ==
  /\ CursorValue > 0
  /\ runs >= 2
  /\ pc = "exit_partial"

\* Number of bundle-file lines create_jsonl_batches reads after the skip.
LinesRead ==
  IF start_index >= Len(bundle_file) THEN 0
  ELSE Len(bundle_file) - start_index

\* C2: the cursor create_jsonl_batches returns is the stored cursor plus
\* the number of bundle-file lines it read after skipping, whatever the
\* lines hold.
NewCursorCountsLinesRead ==
  pc = "loop" => final_cursor_pos = start_index + LinesRead

\* C3: over fully successful runs on an unchanged bundle file every
\* parseable line is rendered into an envelope in exactly one run.
EachLineRenderedInOneRun ==
  (clean /\ pc \in {"exit_ok", "exit_nowork"}) =>
    \A i \in 1..Len(bundle_file) :
      ParsesAsJson(bundle_file[i]) => rendered_runs[i] = 1

\* C4: when the process dies after create_jsonl_batches returned and
\* before the cursor update, the cursor file still reads as it did when
\* the run started, and the next run partitions the same lines into the
\* same batch files again.
CrashLeavesCursorAndRedoes ==
  /\ pc \in {"crashed", "raised"} => CursorValue = start_index
  /\ (prev_run.outcome \in {"crashed", "raised"} /\ pc # "start") =>
       /\ start_index = prev_run.start_index
       /\ files = prev_run.files

C4Witness ==
  /\ prev_run.outcome = "crashed"
  /\ pc = "loop"
  /\ start_index > 0
  /\ files # <<>>

\* Envelopes held by the batch files that succeeded in this run.
SucceededRequests == Cardinality(LinesOf(SubSeq(files, 1, success_count)))

\* C5: after a run in which a batch failed, the persisted cursor equals
\* the cursor the run started from plus the lines of the batches that
\* succeeded before the failure.
PartialFailureAdvancesCursor ==
  pc = "exit_partial" => CursorValue = start_index + SucceededRequests

JobsInFlight == {k \in 1..Len(remote_jobs) : remote_jobs[k] \in NonTerminal}

\* C15: within one run the batch files are uploaded one at a time in the
\* order create_jsonl_batches returned them; a batch is uploaded only when
\* every batch before it has reached SUCCEEDED and has its result saved;
\* at most one job of the run is in flight; and once a batch has failed no
\* later batch is uploaded or submitted.
OneBatchAtATime ==
  /\ [](/\ uploaded = [k \in 1..Len(uploaded) |-> k]
        /\ Len(remote_jobs) <= Len(uploaded)
        /\ Len(uploaded) <= Len(files)
        /\ Cardinality(JobsInFlight) <= 1
        /\ \A k \in 1..Len(remote_jobs) :
             remote_jobs[k] \in {"JOB_STATE_FAILED", "JOB_STATE_CANCELLED"}
               => Len(uploaded) = k
        /\ \A k \in 1..(Len(uploaded) - 1) :
             /\ remote_jobs[k] = "JOB_STATE_SUCCEEDED"
             /\ k \in results_saved)
  /\ [][(uploaded' # uploaded /\ runs' = runs) =>
          /\ uploaded' = Append(uploaded, Len(uploaded) + 1)
          /\ results_saved = 1..Len(uploaded)
          /\ Len(remote_jobs) = Len(uploaded)
          /\ JobsInFlight = {}]_vars

C15Witness ==
  /\ pc = "exit_partial"
  /\ uploaded = <<1, 2>>
  /\ results_saved = {1}
  /\ remote_jobs = <<"JOB_STATE_SUCCEEDED", "JOB_STATE_CANCELLED">>

\* The runner is between the creation of the job and the end of polling.
Polling == pc = "loop" /\ job_state \in {"SUBMITTED"} \cup NonTerminal

\* A call of the inference client throws in this step: the named call
\* joins the errors of the run.
ClientThrows(call) ==
  /\ runs' = runs
  /\ client_errors' = Append(client_errors, call)

\* C16: when client.files.upload or client.batches.create throws, the
\* runner returns a failure to the driver, which leaves its loop with the
\* batch not counted; no job is polled for the batch and the cursor file
\* is not written.
SubmissionFailureIsReported ==
  [][(ClientThrows("files.upload") \/ ClientThrows("batches.create")) =>
       /\ pc' = "after_loop"
       /\ success_count' = success_count
       /\ job_state' \in {"CREATED", "UPLOADED"}
       /\ remote_jobs' = remote_jobs
       /\ cursor_file' = cursor_file]_vars

\* C17: an error thrown by a job-state query while a job is polled is
\* caught and the query made again: the runner is still polling the same
\* job afterwards, the run goes on and the batch is not counted as failed.
PollingErrorIsRetried ==
  [][ClientThrows("batches.get") =>
       /\ Polling'
       /\ job_state' = job_state
       /\ remote_jobs' = remote_jobs
       /\ clean' = clean]_vars

\* A step the runner or the driver takes within a run: no client call
\* throws in it and the process is not killed.
RunnerStep == runs' = runs /\ pc' \notin {"raised", "crashed"}

\* C18: for each batch file the runner uploads, then creates the job, then
\* polls; it leaves polling only with a terminal state that
\* client.batches.get reported; the result file of a batch is written
\* exactly when that state is SUCCEEDED, in the runner's next step, and
\* the driver counts a success exactly in the step that writes it; FAILED
\* and CANCELLED end the driver's loop with nothing written or counted.
RunnerFollowsJobStates ==
  [][RunnerStep =>
       /\ job_state' # job_state =>
            \/ job_state = "NONE" /\ job_state' = "CREATED"
            \/ job_state = "CREATED" /\ job_state' = "UPLOADED"
            \/ job_state = "UPLOADED" /\ job_state' = "SUBMITTED"
            \/ Polling /\ job_state' \in JobStates
            \/ job_state = "JOB_STATE_SUCCEEDED"
                 /\ job_state' \in {"CREATED", "NONE"}
       /\ (Polling /\ ~ Polling') =>
            /\ job_state' \in Terminal
            /\ job_state' = BatchesGet
       /\ (job_state = "JOB_STATE_SUCCEEDED" /\ job_state' # job_state)
            <=> results_saved' # results_saved
       /\ results_saved' # results_saved =>
            results_saved' = results_saved \cup {CurrentBatch}
       /\ success_count' # success_count <=> results_saved' # results_saved
       /\ job_state' \in {"JOB_STATE_FAILED", "JOB_STATE_CANCELLED"} =>
            pc' \in {"after_loop", "exit_partial"}]_vars

C18Witness ==
  /\ pc = "exit_ok"
  /\ uploaded = <<1, 2>>
  /\ results_saved = {1, 2}
  /\ remote_jobs = <<"JOB_STATE_SUCCEEDED", "JOB_STATE_SUCCEEDED">>

\* submit_wait_download has returned to the driver, which is at the next
\* file or past its loop.
Returned ==
  \/ pc = "loop" /\ job_state = "CREATED"
  \/ pc \in {"after_loop", "exit_ok", "exit_partial"}

\* C19: polling has no deadline: whatever the number of polls made, a
\* step taken while the job is reported in a non-terminal state leaves the
\* runner polling that job, with nothing returned or counted; and, the
\* process being kept running, once the job is in a terminal state
\* submit_wait_download returns in the end.
PollsUntilTerminal ==
  /\ [][(Polling /\ BatchesGet \in NonTerminal) =>
          /\ Polling'
          /\ ~ Returned'
          /\ success_count' = success_count
          /\ uploaded' = uploaded]_vars
  /\ (Polling /\ BatchesGet \in Terminal) ~> Returned

C19Witness ==
  /\ pc = "loop"
  /\ uploaded = <<1, 2>>
  /\ remote_jobs = <<"JOB_STATE_SUCCEEDED", "JOB_STATE_RUNNING">>
  /\ job_state = "JOB_STATE_PENDING"

\* C14: MAX_REQS_PER_BATCH is the floor of MAX_TOKENS_PER_BATCH over
\* EST_TOKENS_PER_REQ, no batch file create_jsonl_batches returns holds
\* more envelopes than that, and only the last one may hold fewer.
BatchFilesWithinLimit ==
  /\ MAX_REQS_PER_BATCH * EST_TOKENS_PER_REQ <= MAX_TOKENS_PER_BATCH
  /\ MAX_TOKENS_PER_BATCH < (MAX_REQS_PER_BATCH + 1) * EST_TOKENS_PER_REQ
  /\ \A k \in 1..Len(files) :
       /\ Len(files[k]) <= MAX_REQS_PER_BATCH
       /\ k < Len(files) => Len(files[k]) = MAX_REQS_PER_BATCH

C14Witness ==
  /\ Len(files) = 2
  /\ Len(files[1]) = MAX_REQS_PER_BATCH
  /\ Len(files[2]) < MAX_REQS_PER_BATCH
  /\ job_state = "UPLOADED"

\* ------------------------------------------------ worker pool: the steps
InitPool ==
  /\ bundle_file \in UNION {[1..n -> Lines] : n \in 1..PoolLines}
  /\ cursor_file = CursorAbsent
  /\ input_exists = TRUE
  /\ BatchQuiet
  /\ PoolQuiet
  /\ RetryQuiet
  /\ BuilderQuiet
  /\ ParserQuiet
  /\ ValidatorQuiet

\* Thread w with some fields of its local state changed.
Goto(w, label) == [thread EXCEPT ![w].pc = label]

\* generate_all up to the submission of the tasks: the output file is
\* scanned, the bundle file read and filtered; with nothing left it prints
\* "All items already processed!" and returns.
StartGenerateAll ==
  /\ gpc = "start"
  /\ LET processed_ids == LoadProcessedIds(out_file)
         items == WorkItems(bundle_file, processed_ids, 1)
     IN /\ work_items' = items
        /\ queue' = items
        /\ gpc' = IF items = <<>> THEN "returned_nowork" ELSE "running"
        /\ result' = [i \in DOMAIN result |->
                        IF \E k \in 1..Len(items) : items[k] = i
                        THEN "queued" ELSE "none"]
  /\ base_len' = Len(out_file)
  /\ exhausted' = {}
  /\ UNCHANGED <<out_file, synced, clock, last_call, limiter_lock, file_lock,
                 thread, pool_runs, last_generate>>
  /\ UNCHANGED <<batch_vars, retry_vars, builder_vars,
                 parser_vars, validator_vars, input_vars>>

\* A free pool thread takes the next task: _process_single_bundle parses
\* the line and builds the prompt.
TakeItem(w) ==
  /\ gpc = "running"
  /\ thread[w].pc = "idle"
  /\ queue # <<>>
  /\ thread' = [thread EXCEPT ![w].pc = "wait", ![w].item = Head(queue)]
  /\ queue' = Tail(queue)
  /\ result' = [result EXCEPT ![Head(queue)] = "running"]
  /\ UNCHANGED <<out_file, synced, clock, last_call, limiter_lock, file_lock,
                 gpc, work_items, pool_runs, base_len, last_generate,
                 exhausted>>
  /\ UNCHANGED <<batch_vars, retry_vars, builder_vars,
                 parser_vars, validator_vars, input_vars>>

\* A slip: the check runs without taking the lock first.
LimiterEnterUnguarded(w) ==
  /\ thread[w].pc = "wait"
  /\ limiter_lock' = w
  /\ LET now == clock
         elapsed == now - last_call
     IN thread' = IF elapsed < delay
                  THEN [thread EXCEPT ![w].pc = "sleeping",
                                      ![w].sleep_arg = delay - elapsed,
                                      ![w].wake = clock + (delay - elapsed)]
                  ELSE [thread EXCEPT ![w].pc = "stamp"]
  /\ UNCHANGED <<out_file, synced, clock, last_call, file_lock, gpc,
                 work_items, queue, result, pool_runs, base_len,
                 last_generate, exhausted>>
  /\ UNCHANGED <<batch_vars, retry_vars, builder_vars,
                 parser_vars, validator_vars, input_vars>>

\* RateLimiter.wait up to its sleep: the lock is taken, the time read and
\* compared with last_call, and time.sleep called if the delay has not
\* elapsed.
LimiterEnter(w) ==
  /\ thread[w].pc = "wait"
  /\ limiter_lock = 0
  /\ limiter_lock' = w
  /\ LET now == clock
         elapsed == now - last_call
     IN thread' = IF elapsed < delay
                  THEN [thread EXCEPT ![w].pc = "sleeping",
                                      ![w].sleep_arg = delay - elapsed,
                                      ![w].wake = clock + (delay - elapsed)]
                  ELSE [thread EXCEPT ![w].pc = "stamp"]
  /\ UNCHANGED <<out_file, synced, clock, last_call, file_lock, gpc,
                 work_items, queue, result, pool_runs, base_len,
                 last_generate, exhausted>>
  /\ UNCHANGED <<batch_vars, retry_vars, builder_vars,
                 parser_vars, validator_vars, input_vars>>

\* RateLimiter.wait from the end of its sleep: last_call is set to the
\* time read then and the lock released.
LimiterReturn(w) ==
  /\ thread[w].pc \in {"sleeping", "stamp"}
  /\ thread[w].pc = "sleeping" => clock >= thread[w].wake
  /\ last_call' = clock
  /\ limiter_lock' = 0
  /\ thread' = [thread EXCEPT ![w].pc = "call", ![w].attempt = 0,
                              ![w].sleep_arg = 0, ![w].wake = 0]
  /\ UNCHANGED <<out_file, synced, clock, file_lock, gpc, work_items, queue,
                 result, pool_runs, base_len, last_generate, exhausted>>
  /\ UNCHANGED <<batch_vars, retry_vars, builder_vars,
                 parser_vars, validator_vars, input_vars>>

\* _call_provider_with_retry calls self.provider.generate(prompt), which
\* returns the response. (How long the call takes is not modelled apart:
\* the thread may stay at its next position for any time.)
GenerateReturns(w) ==
  /\ thread[w].pc = "call"
  /\ last_generate' = clock
  /\ thread' = Goto(w, "write_lock")
  /\ UNCHANGED <<out_file, synced, clock, last_call, limiter_lock, file_lock,
                 gpc, work_items, queue, result, pool_runs, base_len,
                 exhausted>>
  /\ UNCHANGED <<batch_vars, retry_vars, builder_vars,
                 parser_vars, validator_vars, input_vars>>

\* The markers the retry loop looks for in the text of an error.
Markers == {"429", "quota", "500", "internal"}

\* A slip: the same wait at every attempt.
RetrySleepFlat(msg, attempt) ==
  IF "429" \in msg \/ "quota" \in msg \/ "500" \in msg
  THEN base_delay
  ELSE IF "500" \in msg \/ "internal" \in msg
       THEN server_error_sleep
       ELSE -1

\* The seconds _call_provider_with_retry sleeps after an error whose text
\* holds the markers in msg, at the given attempt; -1 when it re-raises.
RetrySleep(msg, attempt) ==
  IF "429" \in msg \/ "quota" \in msg \/ "500" \in msg
  THEN base_delay * (2 ^ attempt)
  ELSE IF "500" \in msg \/ "internal" \in msg
       THEN server_error_sleep
       ELSE -1

\* _process_single_bundle returns False for the task of thread w.
TaskFails(w) ==
  /\ thread' = [thread EXCEPT ![w] = IdleThread]
  /\ result' = [result EXCEPT ![thread[w].item] = "false"]

\* provider.generate is called and raises: the retry loop sleeps, or re-raises the error,
\* which _process_single_bundle catches.
GenerateRaises(w) ==
  /\ thread[w].pc = "call"
  /\ last_generate' = clock
  /\ \E msg \in SUBSET Markers :
       LET wait_time == RetrySleep(msg, thread[w].attempt) IN
       IF wait_time >= 0
       THEN /\ thread' = [thread EXCEPT ![w].pc = "backoff",
                                        ![w].wake = clock + wait_time]
            /\ result' = result
       ELSE TaskFails(w)
  /\ UNCHANGED <<out_file, synced, clock, last_call, limiter_lock, file_lock,
                 gpc, work_items, queue, pool_runs, base_len, exhausted>>
  /\ UNCHANGED <<batch_vars, retry_vars, builder_vars,
                 parser_vars, validator_vars, input_vars>>

\* A slip: the loop goes on to another attempt however many were made.
BackoffOverUnbounded(w) ==
  /\ thread[w].pc = "backoff"
  /\ clock >= thread[w].wake
  /\ thread' = [thread EXCEPT ![w].pc = "call", ![w].wake = 0,
                              ![w].attempt = thread[w].attempt + 1]
  /\ UNCHANGED <<out_file, synced, clock, last_call, limiter_lock, file_lock,
                 gpc, work_items, queue, result, pool_runs, base_len,
                 last_generate, exhausted>>
  /\ UNCHANGED <<batch_vars, retry_vars, builder_vars,
                 parser_vars, validator_vars, input_vars>>

\* The sleep of the retry loop is over: the next attempt, or "Max retries
\* exceeded" after the last one.
BackoffOver(w) ==
  /\ thread[w].pc = "backoff"
  /\ clock >= thread[w].wake
  /\ IF thread[w].attempt + 1 < retries
     THEN /\ thread' = [thread EXCEPT ![w].pc = "call", ![w].wake = 0,
                                      ![w].attempt = thread[w].attempt + 1]
          /\ result' = result
          /\ exhausted' = exhausted
     ELSE /\ TaskFails(w)
          /\ exhausted' = exhausted \cup {thread[w].item}
  /\ UNCHANGED <<out_file, synced, clock, last_call, limiter_lock, file_lock,
                 gpc, work_items, queue, pool_runs, base_len, last_generate>>
  /\ UNCHANGED <<batch_vars, retry_vars, builder_vars,
                 parser_vars, validator_vars, input_vars>>

\* A slip: the output file is opened without waiting for the lock.
FileLockAcquireUnguarded(w) ==
  /\ thread[w].pc = "write_lock"
  /\ file_lock' = w
  /\ thread' = [thread EXCEPT ![w].pc = "written",
                              ![w].buffer = RecordChunks(thread[w].item)]
  /\ UNCHANGED <<out_file, synced, clock, last_call, limiter_lock, gpc,
                 work_items, queue, result, pool_runs, base_len,
                 last_generate, exhausted>>
  /\ UNCHANGED <<batch_vars, retry_vars, builder_vars,
                 parser_vars, validator_vars, input_vars>>

\* with self.file_lock: the file is opened for appending and
\* f_out.write(json.dumps(combined_record) + "\n") puts the text of the
\* record, whose id is line_idx, into the stream.
FileLockAcquire(w) ==
  /\ thread[w].pc = "write_lock"
  /\ file_lock = 0
  /\ file_lock' = w
  /\ thread' = [thread EXCEPT ![w].pc = "written",
                              ![w].buffer = RecordChunks(thread[w].item)]
  /\ UNCHANGED <<out_file, synced, clock, last_call, limiter_lock, gpc,
                 work_items, queue, result, pool_runs, base_len,
                 last_generate, exhausted>>
  /\ UNCHANGED <<batch_vars, retry_vars, builder_vars,
                 parser_vars, validator_vars, input_vars>>

\* A slip: the file is opened with mode "w", so the first piece written
\* replaces what the file held.
FlushChunkTruncating(w) ==
  /\ thread[w].pc = "written"
  /\ out_file' = IF thread[w].buffer = RecordChunks(thread[w].item)
                 THEN <<Head(thread[w].buffer)>>
                 ELSE Append(out_file, Head(thread[w].buffer))
  /\ thread' = [thread EXCEPT
                  ![w].buffer = Tail(thread[w].buffer),
                  ![w].pc = IF Len(thread[w].buffer) = 1
                            THEN "flushed" ELSE "written"]
  /\ UNCHANGED <<synced, clock, last_call, limiter_lock, file_lock, gpc,
                 work_items, queue, result, pool_runs, base_len,
                 last_generate, exhausted>>
  /\ UNCHANGED <<batch_vars, retry_vars, builder_vars,
                 parser_vars, validator_vars, input_vars>>

\* f_out.flush(): the stream hands its text to the file, piece by piece.
FlushChunk(w) ==
  /\ thread[w].pc = "written"
  /\ out_file' = Append(out_file, Head(thread[w].buffer))
  /\ thread' = [thread EXCEPT
                  ![w].buffer = Tail(thread[w].buffer),
                  ![w].pc = IF Len(thread[w].buffer) = 1
                            THEN "flushed" ELSE "written"]
  /\ UNCHANGED <<synced, clock, last_call, limiter_lock, file_lock, gpc,
                 work_items, queue, result, pool_runs, base_len,
                 last_generate, exhausted>>
  /\ UNCHANGED <<batch_vars, retry_vars, builder_vars,
                 parser_vars, validator_vars, input_vars>>

\* os.fsync(f_out.fileno())
Fsync(w) ==
  /\ thread[w].pc = "flushed"
  /\ synced' = Len(out_file)
  /\ thread' = Goto(w, "synced")
  /\ UNCHANGED <<out_file, clock, last_call, limiter_lock, file_lock, gpc,
                 work_items, queue, result, pool_runs, base_len,
                 last_generate, exhausted>>
  /\ UNCHANGED <<batch_vars, retry_vars, builder_vars,
                 parser_vars, validator_vars, input_vars>>

\* The with blocks end: the file is closed, the lock released, and
\* _process_single_bundle returns True.
FileLockRelease(w) ==
  /\ thread[w].pc = "synced"
  /\ file_lock' = 0
  /\ thread' = [thread EXCEPT ![w] = IdleThread]
  /\ result' = [result EXCEPT ![thread[w].item] = "true"]
  /\ UNCHANGED <<out_file, synced, clock, last_call, limiter_lock, gpc,
                 work_items, queue, pool_runs, base_len, last_generate,
                 exhausted>>
  /\ UNCHANGED <<batch_vars, retry_vars, builder_vars,
                 parser_vars, validator_vars, input_vars>>

\* A slip: generate_all returns once no task is left in the queue, without
\* waiting for the tasks the threads are at.
FinishGenerateAllEarly ==
  /\ gpc = "running"
  /\ queue = <<>>
  /\ gpc' = "returned"
  /\ UNCHANGED <<out_file, synced, clock, last_call, limiter_lock, file_lock,
                 work_items, queue, result, thread, pool_runs, base_len,
                 last_generate, exhausted>>
  /\ UNCHANGED <<batch_vars, retry_vars, builder_vars,
                 parser_vars, validator_vars, input_vars>>

\* Every future is done: the executor shuts down and generate_all returns.
FinishGenerateAll ==
  /\ gpc = "running"
  /\ \A i \in DOMAIN result : result[i] \in {"none", "true", "false"}
  /\ gpc' = "returned"
  /\ UNCHANGED <<out_file, synced, clock, last_call, limiter_lock, file_lock,
                 work_items, queue, result, thread, pool_runs, base_len,
                 last_generate, exhausted>>
  /\ UNCHANGED <<batch_vars, retry_vars, builder_vars,
                 parser_vars, validator_vars, input_vars>>

\* The script is launched again: a new engine, limiter and locks; only the
\* output file carries over. Nothing in the new process depends on the
\* readings of the clock in the old one, so the clock is counted anew.
PoolRestart ==
  /\ gpc \in {"returned", "returned_nowork"}
  /\ pool_runs < MaxPoolRuns
  /\ pool_runs' = pool_runs + 1
  /\ gpc' = "start"
  /\ clock' = Epoch
  /\ last_call' = 0
  /\ last_generate' = NoCall
  /\ work_items' = <<>>
  /\ queue' = <<>>
  /\ result' = [i \in DOMAIN result |-> "none"]
  /\ base_len' = Len(out_file)
  /\ exhausted' = {}
  /\ UNCHANGED <<out_file, synced, limiter_lock, file_lock, thread>>
  /\ UNCHANGED <<batch_vars, retry_vars, builder_vars,
                 parser_vars, validator_vars, input_vars>>

\* A second passes.
Tick ==
  /\ gpc = "running"
  /\ clock < Epoch + MaxTime
  /\ clock' = clock + 1
  /\ UNCHANGED <<out_file, synced, last_call, limiter_lock, file_lock, gpc,
                 work_items, queue, result, thread, pool_runs, base_len,
                 last_generate, exhausted>>
  /\ UNCHANGED <<batch_vars, retry_vars, builder_vars,
                 parser_vars, validator_vars, input_vars>>

NextPool ==
  \/ StartGenerateAll
  \/ \E w \in Workers : TakeItem(w)
  \/ \E w \in Workers : LimiterEnter(w)
  \/ \E w \in Workers : LimiterReturn(w)
  \/ \E w \in Workers : GenerateReturns(w)
  \/ \E w \in Workers : GenerateRaises(w)
  \/ \E w \in Workers : BackoffOver(w)
  \/ \E w \in Workers : FileLockAcquire(w)
  \/ \E w \in Workers : FlushChunk(w)
  \/ \E w \in Workers : Fsync(w)
  \/ \E w \in Workers : FileLockRelease(w)
  \/ FinishGenerateAll
  \/ Tick

\* One launch of the script.
SpecPool == InitPool /\ [][NextPool]_vars

NextPoolRuns ==
  \/ NextPool
  \/ PoolRestart

\* Several launches, one after the other, over the same output file.
SpecPoolRuns == InitPool /\ [][NextPoolRuns]_vars

\* ---------------------------------------------------- worker pool: claims
\* The line numbers of the work queue generate_all built.
QueuedItems == {work_items[k] : k \in 1..Len(work_items)}

\* The bundle-file items no record of the output file carries the id of.
UnrecordedItems ==
  {i \in 1..Len(bundle_file) :
     /\ ParsesAsJson(bundle_file[i])
     /\ ~ \E rec \in Records(out_file) : rec.id = i}

\* C7: the work queue generate_all builds holds exactly the bundle-file
\* items for which the output file has no record (a record's top-level id
\* being the item's identifier), so an item recorded by an earlier run is
\* not submitted again.
QueueIsTheUnrecordedItems ==
  (/\ gpc \in {"running", "returned_nowork"}
   /\ queue = work_items
   /\ Len(out_file) = base_len) => QueuedItems = UnrecordedItems

\* The lines of the output file appended since the run started.
NewLines == FileLines(SubSeq(out_file, base_len + 1, Len(out_file)), <<>>)

\* C8: whatever the number of threads and the order in which they finish,
\* a thread writes, flushes and syncs only while it holds the file lock,
\* every line of the output file is one whole record (the last one may be
\* under way while its writer flushes), and each item whose task returned
\* True has exactly one line of this run, carrying its own line number as
\* id, while no other item has any.
OneWholeLinePerSuccess ==
  /\ \A w \in Workers :
       thread[w].pc \in {"written", "flushed", "synced"} => file_lock = w
  /\ LET ls == FileLines(out_file, <<>>) IN
     \A k \in 1..Len(ls) :
       \/ IsRecordLine(ls[k])
       \/ /\ k = Len(ls)
          /\ \E w \in Workers : thread[w].pc = "written" /\ file_lock = w
                                  /\ ls[k] \o thread[w].buffer
                                       = RecordChunks(thread[w].item)
  /\ \A i \in DOMAIN result :
       LET n == Cardinality({k \in 1..Len(NewLines) :
                               NewLines[k] = RecordChunks(i)})
       IN /\ result[i] = "true" => n = 1
          /\ result[i] \in {"none", "queued", "false"} => n = 0

C8Witness ==
  /\ gpc = "returned"
  /\ pool_runs = 1
  /\ Len(out_file) = 4
  /\ out_file[1].id = 2
  /\ out_file[3].id = 1
  /\ \A i \in DOMAIN result : result[i] = "true"

\* Thread w starts a provider.generate call in this step.
StartsGenerate(w) == thread[w].pc = "call" /\ thread'[w].pc # "call"

\* C9: any two provider.generate calls of a run, first attempts and
\* retries alike, start at least 60 / rpm_limit seconds apart.
GenerateCallsRespectCeiling ==
  [][\A w \in Workers :
       (StartsGenerate(w) /\ last_generate # NoCall) =>
         clock - last_generate >= delay]_vars

\* Thread w returns from RateLimiter.wait in this step.
ReturnsFromWait(w) ==
  thread[w].pc \in {"sleeping", "stamp"} /\ thread'[w].pc = "call"

\* C10: in every interleaving a thread is between the check and the end of
\* the sleep of RateLimiter.wait only while it holds the limiter's lock,
\* time.sleep is only ever asked for a positive duration, and the
\* last_call times two consecutive returns record are at least
\* 60 / max_calls_per_minute seconds apart.
LimiterSpacesReturns ==
  /\ [](\A w \in Workers :
          /\ thread[w].pc \in {"sleeping", "stamp"} => limiter_lock = w
          /\ thread[w].pc = "sleeping" => thread[w].sleep_arg > 0)
  /\ [][\A w \in Workers :
          ReturnsFromWait(w) => last_call' - last_call >= delay]_vars

C10Witness ==
  \E w \in Workers :
    /\ thread[w].pc = "sleeping"
    /\ thread[w].sleep_arg < delay
    /\ clock >= thread[w].wake
    /\ last_call > 0
    /\ \E v \in Workers : v # w /\ thread[v].pc = "write_lock"

\* The task of thread w ends in this step with "Max retries exceeded".
ExhaustsRetries(w) ==
  /\ thread[w].pc = "backoff"
  /\ thread[w].attempt + 1 = retries
  /\ thread'[w].pc = "idle"

\* C13: when every attempt for a work item fails with a retryable error,
\* at most `retries` provider calls are made for it, the terminal error
\* ends the task of that item only (its future is False; the queue, the
\* other threads, the other futures and the run itself are left as they
\* are), no record of the item is appended to the output file, and
\* generate_all returns only when every other work item has run to its
\* end too.
ExhaustionFailsOneItemOnly ==
  /\ [](/\ \A w \in Workers : thread[w].attempt < retries
        /\ \A i \in exhausted :
             /\ result[i] = "false"
             /\ \A k \in (base_len + 1)..Len(out_file) : out_file[k].id # i
        /\ gpc = "returned" =>
             \A i \in QueuedItems : result[i] \in {"true", "false"})
  /\ [][\A w \in Workers :
          ExhaustsRetries(w) =>
            /\ result' = [result EXCEPT ![thread[w].item] = "false"]
            /\ \A v \in Workers \ {w} : thread'[v] = thread[v]
            /\ UNCHANGED <<queue, gpc, out_file, file_lock, limiter_lock>>]_vars

C13Witness ==
  /\ gpc = "returned"
  /\ exhausted = {1}
  /\ result = <<"false", "true">>
  /\ Records(out_file) = {ParsedRecord(RecordChunks(2))}

\* ------------------------------------- the retry loop against any provider
InitRetry ==
  /\ bundle_file = <<"bundle">>
  /\ cursor_file = CursorAbsent
  /\ input_exists = TRUE
  /\ BatchQuiet
  /\ PoolQuiet
  /\ RetryQuiet
  /\ BuilderQuiet
  /\ ParserQuiet
  /\ ValidatorQuiet

\* return self.provider.generate(prompt): the provider answers.
ProviderReturns ==
  /\ retry_call.pc = "call"
  /\ retry_call' = [retry_call EXCEPT !.pc = "returned",
                                      !.calls = retry_call.calls + 1]
  /\ UNCHANGED <<batch_vars, pool_vars, builder_vars,
                 parser_vars, validator_vars, input_vars>>

\* provider.generate raises an error whose lowercased text holds the
\* markers in msg: time.sleep(wait_time) or time.sleep(2) is called, or the
\* error is raised again.
ProviderRaises ==
  /\ retry_call.pc = "call"
  /\ \E msg \in SUBSET Markers :
       LET wait_time == RetrySleep(msg, retry_call.attempt) IN
       retry_call' =
         IF wait_time >= 0
         THEN [retry_call EXCEPT
                 !.pc = "sleep",
                 !.calls = retry_call.calls + 1,
                 !.errors = Append(retry_call.errors, msg),
                 !.sleeps = Append(retry_call.sleeps, wait_time)]
         ELSE [retry_call EXCEPT
                 !.pc = "raised",
                 !.calls = retry_call.calls + 1,
                 !.errors = Append(retry_call.errors, msg)]
  /\ UNCHANGED <<batch_vars, pool_vars, builder_vars,
                 parser_vars, validator_vars, input_vars>>

\* time.sleep returns: for attempt in range(retries) goes on to the next
\* attempt, or the loop is over and "Max retries exceeded" is raised.
RetrySleepOver ==
  /\ retry_call.pc = "sleep"
  /\ retry_call' =
       IF retry_call.attempt + 1 < retries
       THEN [retry_call EXCEPT !.pc = "call",
                               !.attempt = retry_call.attempt + 1]
       ELSE [retry_call EXCEPT !.pc = "max_retries"]
  /\ UNCHANGED <<batch_vars, pool_vars, builder_vars,
                 parser_vars, validator_vars, input_vars>>

NextRetry ==
  \/ ProviderReturns
  \/ ProviderRaises
  \/ RetrySleepOver

SpecRetry == InitRetry /\ [][NextRetry]_vars

\* ------------------------------------------------------ retry loop: claims
\* The error text holds one of the markers the design names as retryable.
Retryable(msg) == msg \cap Markers # {}

\* C11: an error whose text holds any of the markers "429", "quota", "500"
\* or "internal" is followed by a sleep of base_delay * 2^attempt seconds
\* (attempt counted from 0) and another attempt, the same for each marker;
\* an error with none of them is raised again at once, with no sleep and
\* no further provider call.
RetryableErrorsBackOffAlike ==
  \A j \in 1..Len(retry_call.errors) :
    IF Retryable(retry_call.errors[j])
    THEN /\ Len(retry_call.sleeps) >= j
         /\ retry_call.sleeps[j] = base_delay * (2 ^ (j - 1))
    ELSE /\ retry_call.pc = "raised"
         /\ j = Len(retry_call.errors)
         /\ retry_call.calls = j
         /\ Len(retry_call.sleeps) = j - 1

\* C12: when the provider fails k times in a row with an error that holds
\* "429" and then answers, k below the retry limit, the loop has made
\* exactly k + 1 provider calls, has slept exactly k times, each sleep
\* longer than the one before, and returns the answer; when the first
\* error holds no marker, one call was made, nothing was slept and the
\* error is raised.
RetriedUntilSuccess ==
  /\ (/\ retry_call.pc = "returned"
      /\ \A j \in 1..Len(retry_call.errors) : "429" \in retry_call.errors[j])
     => LET k == Len(retry_call.errors) IN
        /\ k < retries
        /\ retry_call.calls = k + 1
        /\ Len(retry_call.sleeps) = k
        /\ \A j \in 1..(k - 1) : retry_call.sleeps[j] < retry_call.sleeps[j + 1]
  /\ (/\ retry_call.errors # <<>>
      /\ ~ Retryable(retry_call.errors[1]))
     => /\ retry_call.pc = "raised"
        /\ retry_call.calls = 1
        /\ retry_call.sleeps = <<>>

C12Witness ==
  /\ retry_call.pc = "returned"
  /\ retry_call.errors = <<{"429"}, {"429"}>>
  /\ retry_call.calls = 3
  /\ retry_call.sleeps = <<base_delay, 2 * base_delay>>

\* ------------------------------------------ the readers of the bundle file
\* A bundle file and a cursor file as a launch may find them: the cursor
\* absent, unreadable, or an integer an earlier run stored when the bundle
\* file had at least that many lines.
InitReaders ==
  /\ bundle_file \in BundleFiles
  /\ cursor_file \in {CursorAbsent, CursorGarbage}
                       \cup {CursorInt(k) : k \in 0..Len(bundle_file)}
  /\ input_exists = TRUE
  /\ BatchQuiet
  /\ PoolQuiet
  /\ RetryQuiet
  /\ BuilderQuiet
  /\ ParserQuiet
  /\ ValidatorQuiet

\* The batch driver partitions the file; the worker pool builds its queue
\* from the same file.
NextReaders ==
  \/ CreateJsonlBatches
  \/ StartGenerateAll

SpecReaders == InitReaders /\ [][NextReaders]_vars

\* The bundle-file line numbers of the envelopes of batch files fs, in
\* file order and, within a file, in the order written.
RECURSIVE EnvelopeLines(_)
EnvelopeLines(fs) ==
  IF fs = <<>> THEN <<>>
  ELSE [j \in 1..Len(Head(fs)) |-> Head(fs)[j].line] \o EnvelopeLines(Tail(fs))

\* seq lists the members of set, each once, in increasing order.
ListsInOrder(seq, set) ==
  /\ {seq[j] : j \in 1..Len(seq)} = set
  /\ \A j \in 1..(Len(seq) - 1) : seq[j] < seq[j + 1]

\* The lines after position from that json.loads accepts.
ParseableAfter(from) ==
  {i \in (from + 1)..Len(bundle_file) : ParsesAsJson(bundle_file[i])}

NoWorkToldFromAllMalformed ==
  /\ pc # "raised"
  /\ (pc # "start" /\ LinesRead = 0) =>
       \A f \in BundleFiles :
         (\A i \in 1..Len(f) : ~ ParsesAsJson(f[i])) =>
           ReturnedResult(CreateBatchesResult(f, CursorAbsent))
             # ReturnedResult(CreateBatchesResult(bundle_file, cursor_file))

\* The value generate_all returns when it ends at position at: the bare
\* return after "All items already processed!", or the end of the function
\* body after the executor block.
GenerateAllReturns(at) ==
  IF at = "returned_nowork" THEN <<"None">> ELSE <<"None">>

\* Every parseable line of the bundle file had a record in the output file
\* when the run started.
AllRecordedAtStart ==
  \A i \in 1..Len(bundle_file) :
    ParsesAsJson(bundle_file[i]) =>
      \E rec \in Records(SubSeq(out_file, 1, base_len)) : rec.id = i

\* C22: when every work item is already recorded, generate_all returns
\* without an exception, starts no provider call, appends nothing to the
\* output file, and returns a value that differs from the one it returns
\* after processing work.
NoWorkReturnIsDistinct ==
  (gpc # "start" /\ AllRecordedAtStart) =>
    /\ gpc = "returned_nowork"
    /\ last_generate = NoCall
    /\ Len(out_file) = base_len
    /\ GenerateAllReturns("returned_nowork") # GenerateAllReturns("returned")

\* ------------------------------------------------ reading the cursor file
\* The cursor file as a launch may find it: absent, not an integer, or any
\* integer int() accepts, a negative one included.
InitCursor ==
  /\ bundle_file \in BundleFiles
  /\ cursor_file \in {CursorAbsent, CursorGarbage}
                       \cup {CursorInt(k) : k \in (-1)..(MaxLines + 1)}
  /\ input_exists = TRUE
  /\ BatchQuiet
  /\ PoolQuiet
  /\ RetryQuiet
  /\ BuilderQuiet
  /\ ParserQuiet
  /\ ValidatorQuiet

NextCursor ==
  \/ CreateJsonlBatches
  \/ IsliceRaises

SpecCursor == InitCursor /\ [][NextCursor]_vars

\* C23: whatever the cursor file holds, create_jsonl_batches does not
\* raise: an absent file and a content that is not an integer give start
\* index 0, and the value read is accepted as the number of lines to skip.
CursorReadNeverRaises ==
  /\ pc # "raised"
  /\ (pc # "start" /\ cursor_file.kind # "int") => start_index = 0
  /\ (pc # "start" /\ cursor_file.kind = "int") =>
       start_index = cursor_file.n

\* ------------------------------------------- the taxonomy collection grows
\* A taxonomy file of group g is stored: one document per group.
StoreGroup(g) ==
  /\ bpc = "idle"
  /\ g \notin DOMAIN taxonomies
  /\ Nodes(taxonomies) < MaxNodes
  /\ taxonomies' = Put(taxonomies, g, <<>>)
  /\ UNCHANGED <<output_file, bpc, build_runs, count, file_before>>
  /\ UNCHANGED <<batch_vars, pool_vars, retry_vars,
                 parser_vars, validator_vars, input_vars>>

\* ... with one more entry; the schema check asks an id and a label of it.
StoreEntry(g) ==
  /\ bpc = "idle"
  /\ g \in DOMAIN taxonomies
  /\ Nodes(taxonomies) < MaxNodes
  /\ taxonomies' =
       Put(taxonomies, g,
           Append(taxonomies[g],
                  [id |-> <<g, Len(taxonomies[g]) + 1>>, label |-> "label"]))
  /\ UNCHANGED <<output_file, bpc, build_runs, count, file_before>>
  /\ UNCHANGED <<batch_vars, pool_vars, retry_vars,
                 parser_vars, validator_vars, input_vars>>

\* ... whose last entry has the nested list of its group, still empty.
StoreList(g) ==
  /\ bpc = "idle"
  /\ g \in DOMAIN taxonomies
  /\ g \in {"crop", "region_lang"}
  /\ taxonomies[g] # <<>>
  /\ NestedKey(g) \notin DOMAIN taxonomies[g][Len(taxonomies[g])]
  /\ Nodes(taxonomies) < MaxNodes
  /\ taxonomies' =
       Put(taxonomies, g,
           [taxonomies[g] EXCEPT ![Len(taxonomies[g])] =
              Put(@, NestedKey(g), <<>>)])
  /\ UNCHANGED <<output_file, bpc, build_runs, count, file_before>>
  /\ UNCHANGED <<batch_vars, pool_vars, retry_vars,
                 parser_vars, validator_vars, input_vars>>

\* ... with one more item in that list.
StoreItem(g) ==
  /\ bpc = "idle"
  /\ g \in DOMAIN taxonomies
  /\ g \in {"crop", "region_lang"}
  /\ taxonomies[g] # <<>>
  /\ NestedKey(g) \in DOMAIN taxonomies[g][Len(taxonomies[g])]
  /\ Nodes(taxonomies) < MaxNodes
  /\ LET n == Len(taxonomies[g])
         e == taxonomies[g][n]
     IN taxonomies' =
          Put(taxonomies, g,
              [taxonomies[g] EXCEPT ![n] =
                 Put(e, NestedKey(g),
                     Append(e[NestedKey(g)],
                            <<NestedKey(g), n, Len(e[NestedKey(g)]) + 1>>))])
  /\ UNCHANGED <<output_file, bpc, build_runs, count, file_before>>
  /\ UNCHANGED <<batch_vars, pool_vars, retry_vars,
                 parser_vars, validator_vars, input_vars>>

\* ------------------------------------------------ bundle builder: build_all
\* A slip: the label is set from the id whether or not the entry has one.
SampleRelabelling(entry_data) == Put(entry_data, "label", "from id")

\* GenericAdapter.sample: an entry without a label is given one, in place;
\* the result's "data" is the entry itself.
Sample(entry_data) ==
  IF "label" \in DOMAIN entry_data THEN entry_data
  ELSE Put(entry_data, "label", "from id")

\* A slip: an axis missing from the collection is kept with no value.
RECURSIVE IndependentAxesDataKeepingAbsent(_, _)
IndependentAxesDataKeepingAbsent(tax, k) ==
  IF k > Len(INDEPENDENT_AXES) THEN <<>>
  ELSE LET group_name == INDEPENDENT_AXES[k] IN
       IF group_name \notin DOMAIN tax
       THEN <<<<>>>> \o IndependentAxesDataKeepingAbsent(tax, k + 1)
       ELSE <<[j \in 1..Len(tax[group_name]) |->
                 <<group_name, Sample(tax[group_name][j])>>]>>
              \o IndependentAxesDataKeepingAbsent(tax, k + 1)

\* The first loop of build_all: for each independent axis found in the
\* collection, in declared order, the list of its (group_name, data)
\* pairs; an axis not found is skipped with a warning.
RECURSIVE IndependentAxesData(_, _)
IndependentAxesData(tax, k) ==
  IF k > Len(INDEPENDENT_AXES) THEN <<>>
  ELSE LET group_name == INDEPENDENT_AXES[k] IN
       IF group_name \notin DOMAIN tax
       THEN IndependentAxesData(tax, k + 1)
       ELSE <<[j \in 1..Len(tax[group_name]) |->
                 <<group_name, Sample(tax[group_name][j])>>]>>
              \o IndependentAxesData(tax, k + 1)

\* itertools.product(*lists): the tuples in the order product yields them,
\* the last list varying fastest; one empty tuple for no list.
RECURSIVE Product(_)
Product(lists) ==
  IF lists = <<>> THEN <<<<>>>>
  ELSE LET rest == Product(Tail(lists))
           first == Head(lists)
       IN Flatten([a \in 1..Len(first) |->
                     [b \in 1..Len(rest) |-> <<first[a]>> \o rest[b]]])

\* context_bundle: group_name -> data for the pairs of one combination.
ContextBundle(indep_combo) ==
  [g \in {indep_combo[k][1] : k \in 1..Len(indep_combo)} |->
     (CHOOSE p \in {indep_combo[k] : k \in 1..Len(indep_combo)} : p[1] = g)[2]]

\* for problem in problems_list: the bundles of one crop, without their id.
ProblemLoop(base_bundle, crop_payload, problems_list) ==
  [p \in 1..Len(problems_list) |->
     Put(Put(base_bundle, "crop", crop_payload), "stress", problems_list[p])]

\* crop_payload: a copy of the crop without its problems list.
CropPayload(processed_crop) ==
  IF "problems" \in DOMAIN processed_crop THEN Del(processed_crop, "problems")
  ELSE processed_crop

\* A slip: a crop without problems is written once, with no stress.
CropLoopKeepingEmpty(base_bundle, crop_entries) ==
  Flatten([c \in 1..Len(crop_entries) |->
    LET processed_crop == Sample(crop_entries[c])
        problems_list == Get(processed_crop, "problems", <<>>)
    IN IF problems_list = <<>>
       THEN <<Put(base_bundle, "crop", CropPayload(processed_crop))>>
       ELSE ProblemLoop(base_bundle, CropPayload(processed_crop),
                        problems_list)])

\* for crop_entry in crop_entries: a crop with no problems is skipped.
CropLoop(base_bundle, crop_entries) ==
  Flatten([c \in 1..Len(crop_entries) |->
    LET processed_crop == Sample(crop_entries[c])
        problems_list == Get(processed_crop, "problems", <<>>)
    IN IF problems_list = <<>> THEN <<>>
       ELSE ProblemLoop(base_bundle, CropPayload(processed_crop),
                        problems_list)])

\* for lang_entry in allowed_languages
LanguageLoop(context_bundle, region_payload, allowed_languages, crop_entries) ==
  Flatten([l \in 1..Len(allowed_languages) |->
    CropLoop(Put(Put(context_bundle, "region", region_payload),
                 "language", allowed_languages[l]),
             crop_entries)])

\* A slip: the region is written with its languages list.
RegionPayloadWithLanguages(processed_region) == processed_region

\* region_payload: a copy of the region without its languages list.
RegionPayload(processed_region) ==
  IF "languages" \in DOMAIN processed_region
  THEN Del(processed_region, "languages")
  ELSE processed_region

\* for region_entry in region_entries: a region with no language is skipped.
RegionLoop(context_bundle, region_entries, crop_entries) ==
  Flatten([r \in 1..Len(region_entries) |->
    LET processed_region == Sample(region_entries[r])
        allowed_languages == Get(processed_region, "languages", <<>>)
    IN IF allowed_languages = <<>> THEN <<>>
       ELSE LanguageLoop(context_bundle, RegionPayload(processed_region),
                         allowed_languages, crop_entries)])

\* A slip: the id is the count before the write, so ids start at 0.
FinalBundleFromZero(bundle, n) == Put(bundle, "id", n)

\* final_bundle["id"] = count + 1, with count bundles written before it.
FinalBundle(bundle, n) == Put(bundle, "id", n + 1)

\* The lines build_all writes, in order: count starts at 0 and grows by one
\* with each line.
BundleLines(tax) ==
  LET combos == Product(IndependentAxesData(tax, 1))
      bundles == Flatten([i \in 1..Len(combos) |->
                   RegionLoop(ContextBundle(combos[i]), tax["region_lang"],
                              tax["crop"])])
  IN [n \in 1..Len(bundles) |-> FinalBundle(bundles[n], n - 1)]

\* A slip: the file is opened for appending.
OpenForAppending(file) == [exists |-> TRUE, lines |-> file.lines]

\* open(output_path, 'w'): the file exists and is empty.
OpenForWriting(file) == [exists |-> TRUE, lines |-> <<>>]

\* A slip: the output file is opened before the required groups are looked
\* up.
BuildAllResultOpeningFirst(tax, file) ==
  IF "crop" \notin DOMAIN tax
  THEN [outcome |-> "raised", error |-> "Crop taxonomy missing!",
        file |-> OpenForWriting(file), count |-> 0]
  ELSE IF "region_lang" \notin DOMAIN tax
  THEN [outcome |-> "raised", error |-> "Region_lang taxonomy missing!",
        file |-> OpenForWriting(file), count |-> 0]
  ELSE LET lines == BundleLines(tax)
           f == OpenForWriting(file)
       IN [outcome |-> "returned", error |-> "",
           file |-> [f EXCEPT !.lines = @ \o lines], count |-> Len(lines)]

\* build_all on the loaded taxonomies tax with the output file as it is:
\* how it ends, the file it leaves and the count it prints.
BuildAllResult(tax, file) ==
  IF "crop" \notin DOMAIN tax
  THEN [outcome |-> "raised", error |-> "Crop taxonomy missing!",
        file |-> file, count |-> 0]
  ELSE IF "region_lang" \notin DOMAIN tax
  THEN [outcome |-> "raised", error |-> "Region_lang taxonomy missing!",
        file |-> file, count |-> 0]
  ELSE LET lines == BundleLines(tax)
           f == OpenForWriting(file)
       IN [outcome |-> "returned", error |-> "",
           file |-> [f EXCEPT !.lines = @ \o lines], count |-> Len(lines)]

\* BundleBuilder().load_all() and build_all(): the collection is read and
\* the bundle file built from it.
BuildAll ==
  /\ build_runs < MaxBuildRuns
  /\ LET r == BuildAllResult(taxonomies, output_file) IN
     /\ bpc' = r.outcome
     /\ output_file' = r.file
     /\ count' = r.count
  /\ file_before' = output_file
  /\ build_runs' = build_runs + 1
  /\ UNCHANGED taxonomies
  /\ UNCHANGED <<batch_vars, pool_vars, retry_vars,
                 parser_vars, validator_vars, input_vars>>

\* reset_taxonomy_collection: every document of the collection is deleted.
ResetTaxonomyCollection ==
  /\ bpc = "returned"
  /\ taxonomies # NoTaxonomies
  /\ taxonomies' = NoTaxonomies
  /\ build_runs' = 0
  /\ UNCHANGED <<output_file, bpc, count, file_before>>
  /\ UNCHANGED <<batch_vars, pool_vars, retry_vars,
                 parser_vars, validator_vars, input_vars>>

\* The collection is filled, then bundles are built from it, once or
\* again; the collection may be emptied after a build.
InitBuilder ==
  /\ bundle_file = <<"bundle">>
  /\ cursor_file = CursorAbsent
  /\ input_exists = TRUE
  /\ BatchQuiet
  /\ PoolQuiet
  /\ RetryQuiet
  /\ BuilderQuiet
  /\ ParserQuiet
  /\ ValidatorQuiet

NextBuilder ==
  \/ \E g \in Groups : StoreGroup(g)
  \/ \E g \in Groups : StoreEntry(g)
  \/ \E g \in Groups : StoreList(g)
  \/ \E g \in Groups : StoreItem(g)
  \/ BuildAll
  \/ ResetTaxonomyCollection

SpecBuilder == InitBuilder /\ [][NextBuilder]_vars

\* ------------------------------------------------- bundle builder: claims
\* The latest build_all run returned, and the collection is as it read it.
Built == bpc = "returned" /\ build_runs >= 1

\* The independent axes the collection holds a document of.
PresentAxes ==
  {INDEPENDENT_AXES[k] : k \in 1..Len(INDEPENDENT_AXES)} \cap DOMAIN taxonomies

\* Product of the numbers of entries of the present independent axes from
\* the k-th on.
RECURSIVE AxisProduct(_)
AxisProduct(k) ==
  IF k > Len(INDEPENDENT_AXES) THEN 1
  ELSE IF INDEPENDENT_AXES[k] \in DOMAIN taxonomies
       THEN Len(taxonomies[INDEPENDENT_AXES[k]]) * AxisProduct(k + 1)
       ELSE AxisProduct(k + 1)

\* Sum over the entries of group g of the lengths of their nested lists.
NestedCount(g) ==
  SeqSum([k \in 1..Len(taxonomies[g]) |->
            Len(Get(taxonomies[g][k], NestedKey(g), <<>>))])

\* The ids of the entries of group g, and the items of the nested list of
\* the entry of g with a given id.
EntryIds(g) == {taxonomies[g][k].id : k \in 1..Len(taxonomies[g])}

NestedItems(g, id) ==
  LET e == CHOOSE x \in {taxonomies[g][k] : k \in 1..Len(taxonomies[g])} :
             x.id = id
      l == Get(e, NestedKey(g), <<>>)
  IN {l[j] : j \in 1..Len(l)}

\* The tuple a written bundle stands for: its entry of each present axis,
\* its region, language, crop and problem.
TupleOf(line) ==
  <<[g \in PresentAxes |-> line[g].id], line["region"].id, line["language"],
    line["crop"].id, line["stress"]>>

Barren(g) ==
  {taxonomies[g][k].id :
     k \in {j \in 1..Len(taxonomies[g]) :
              Get(taxonomies[g][j], NestedKey(g), <<>>) = <<>>}}

IdsCountTheLines ==
  Built =>
    /\ count = Len(output_file.lines)
    /\ \A n \in 1..Len(output_file.lines) : output_file.lines[n]["id"] = n

C26Witness ==
  /\ Built
  /\ count = 2
  /\ Len(taxonomies["crop"]) = 2
  /\ taxonomies["crop"][2].id \in Barren("crop")
  /\ output_file.lines[1]["language"] # output_file.lines[2]["language"]
  /\ output_file.lines[2]["id"] = 2

\* C27: every bundle written carries a bundle_id, the entry ids of its
\* axes in the declared order (independent axes, region, language, crop,
\* problem) joined by "__", so that no two bundles share a bundle_id.
EveryBundleHasBundleId ==
  Built =>
    LET lines == output_file.lines
        axes == SelectSeq(INDEPENDENT_AXES, LAMBDA g : g \in PresentAxes)
        joined(line) ==
          [k \in 1..Len(axes) |-> line[axes[k]].id]
            \o <<line["region"].id, line["language"], line["crop"].id,
                 line["stress"]>>
    IN /\ \A n \in 1..Len(lines) :
            /\ "bundle_id" \in DOMAIN lines[n]
            /\ lines[n]["bundle_id"] = joined(lines[n])
       /\ \A n, m \in 1..Len(lines) :
            n # m => lines[n]["bundle_id"] # lines[m]["bundle_id"]

\* C28: in every bundle written the region has no languages field and the
\* crop no problems field: the bundle holds the one language and the one
\* problem it was built for, not the lists they came from.
NestedListsStripped ==
  Built =>
    \A n \in 1..Len(output_file.lines) :
      LET line == output_file.lines[n] IN
      /\ "languages" \notin DOMAIN line["region"]
      /\ "problems" \notin DOMAIN line["crop"]
      /\ line["region"] = Del(CHOOSE e \in {taxonomies["region_lang"][k] :
                                   k \in 1..Len(taxonomies["region_lang"])} :
                                e.id = line["region"].id, "languages")
      /\ line["crop"] = Del(CHOOSE e \in {taxonomies["crop"][k] :
                                   k \in 1..Len(taxonomies["crop"])} :
                              e.id = line["crop"].id, "problems")

C28Witness ==
  /\ Built
  /\ count = 2
  /\ Len(taxonomies["region_lang"][1]["languages"]) = 2
  /\ DOMAIN output_file.lines[2]["region"] = {"id", "label"}
  /\ output_file.lines[2]["language"]
       = taxonomies["region_lang"][1]["languages"][2]
  /\ DOMAIN output_file.lines[2]["crop"] = {"id", "label"}

\* C29: when the collection has no crop document or no region_lang
\* document, build_all raises and leaves the bundle file as it found it:
\* not created when there was none, not truncated when there was one, and
\* with no bundle written.
MissingGroupAbortsUntouched ==
  (build_runs >= 1 /\ ~ {"crop", "region_lang"} \subseteq DOMAIN taxonomies) =>
    /\ bpc = "raised"
    /\ output_file = file_before
    /\ count = 0

C29Witness ==
  /\ build_runs = 1
  /\ bpc = "raised"
  /\ "crop" \notin DOMAIN taxonomies
  /\ output_file.exists
  /\ Len(output_file.lines) = 2

Envelopes ==
  {p \in (1..Len(files)) \X (1..MaxLines) : p[2] <= Len(files[p[1]])}

\* C31: every envelope the partitioner writes has as custom_id the string
\* form of the id of the bundle line it was rendered from, so no two
\* envelopes of the batch files of a run share a custom_id.
CustomIdIsBundleId ==
  /\ \A p \in Envelopes :
       files[p[1]][p[2]].custom_id
         = Str(BundleOnLine(files[p[1]][p[2]].line)["id"])
  /\ \A p, q \in Envelopes :
       p # q => files[p[1]][p[2]].custom_id # files[q[1]][q[2]].custom_id

C31Witness ==
  /\ pc = "loop"
  /\ Len(files) = 2
  /\ files[1][1].custom_id = <<"1">>
  /\ files[2][1].custom_id = <<"3">>
  /\ files[2][1].line = 3

\* ---------------------------------------------------------- result parser
\* Texts are sequences of characters; " " is white space.
\* str.strip(): white space at both ends removed.
RECURSIVE StripLeft(_)
StripLeft(text) ==
  IF text # <<>> /\ Head(text) = " " THEN StripLeft(Tail(text)) ELSE text

RECURSIVE StripRight(_)
StripRight(text) ==
  IF text # <<>> /\ text[Len(text)] = " "
  THEN StripRight(SubSeq(text, 1, Len(text) - 1)) ELSE text

Strip(text) == StripRight(StripLeft(text))

\* The i-th line of batch_requests.jsonl, as create_jsonl_batches wrote it.
RequestLine(i) ==
  [custom_id |-> Str(i),
   prompt |-> <<"p">> \o Str(i),
   system_instruction |-> <<"s">> \o Str(i)]

\* The text of the j-th part of the i-th result: none, plain, or with
\* white space around it.
PartText(kind, i, j) ==
  LET body == <<"r">> \o Str(i) \o <<"_">> \o Str(j) IN
  CASE kind = "empty" -> <<>>
    [] kind = "plain" -> body
    [] OTHER -> <<" ">> \o body \o <<" ">>

PartKinds == {"empty", "plain", "padded"}

\* Results and parts in the result stream.
ResultNodes(results) ==
  SeqSum([k \in 1..Len(results) |-> 1 + Len(results[k].parts)])

\* extract_thoughts: the stripped text of the first part marked as thought
\* (the parts of the candidates taken in order); else the top-level
\* thoughts value if there is one; else the empty text.
RECURSIVE FirstThought(_)
FirstThought(parts) ==
  IF parts = <<>> THEN [found |-> FALSE, text |-> <<>>]
  ELSE IF Head(parts).thought
       THEN [found |-> TRUE, text |-> Strip(Head(parts).text)]
       ELSE FirstThought(Tail(parts))

ExtractThoughts(raw_result) ==
  LET t == FirstThought(raw_result.parts) IN
  IF t.found THEN t.text
  ELSE IF "thoughts" \in DOMAIN raw_result THEN raw_result["thoughts"]
  ELSE <<>>

\* extract_advisory: the stripped text of the first part that is not a
\* thought and whose stripped text is not empty; else the top-level
\* advisory value if there is one; else the empty text.
RECURSIVE FirstAdvisory(_)
FirstAdvisory(parts) ==
  IF parts = <<>> THEN <<>>
  ELSE IF ~ Head(parts).thought /\ Strip(Head(parts).text) # <<>>
       THEN Strip(Head(parts).text)
       ELSE FirstAdvisory(Tail(parts))

ExtractAdvisory(raw_result) ==
  LET t == FirstAdvisory(raw_result.parts) IN
  IF t # <<>> THEN t
  ELSE IF "advisory" \in DOMAIN raw_result THEN raw_result["advisory"]
  ELSE <<>>

\* zip(batch_requests, raw_results) stops with the shorter stream.
ZipLength(m, n) == IF m <= n THEN m ELSE n

\* A slip: extraction goes on to the end of the request stream and reads a
\* result again when the results ran out.
ExtractFieldsPadding(batch_requests, raw_results) ==
  [i \in 1..(IF raw_results = <<>> THEN 0 ELSE Len(batch_requests)) |->
     LET res == raw_results[ZipLength(i, Len(raw_results))] IN
     [custom_id |-> batch_requests[i].custom_id,
      prompt |-> Strip(batch_requests[i].prompt),
      system_instruction |-> Strip(batch_requests[i].system_instruction),
      thoughts |-> ExtractThoughts(res),
      advisory |-> ExtractAdvisory(res)]]

\* extract_fields: one entry per pair of the zip.
ExtractFields(batch_requests, raw_results) ==
  [i \in 1..ZipLength(Len(batch_requests), Len(raw_results)) |->
     [custom_id |-> batch_requests[i].custom_id,
      prompt |-> Strip(batch_requests[i].prompt),
      system_instruction |-> Strip(batch_requests[i].system_instruction),
      thoughts |-> ExtractThoughts(raw_results[i]),
      advisory |-> ExtractAdvisory(raw_results[i])]]

\* batch_requests.jsonl has one more line.
AppendRequest ==
  /\ parse_run.pc = "idle"
  /\ Len(parse_run.batch_requests) < MaxRequests
  /\ parse_run' =
       [parse_run EXCEPT !.batch_requests =
          Append(@, RequestLine(Len(@) + 1))]
  /\ UNCHANGED <<batch_vars, pool_vars, retry_vars, builder_vars,
                 validator_vars, input_vars>>

\* raw_results.jsonl has one more line, a response with no part yet.
AppendResult ==
  /\ parse_run.pc = "idle"
  /\ ResultNodes(parse_run.raw_results) < MaxResultNodes
  /\ parse_run' = [parse_run EXCEPT !.raw_results = Append(@, [parts |-> <<>>])]
  /\ UNCHANGED <<batch_vars, pool_vars, retry_vars, builder_vars,
                 validator_vars, input_vars>>

\* The last response has one more part, a thought or not.
AppendPart(thought, kind) ==
  /\ parse_run.pc = "idle"
  /\ parse_run.raw_results # <<>>
  /\ ResultNodes(parse_run.raw_results) < MaxResultNodes
  /\ LET i == Len(parse_run.raw_results)
         j == Len(parse_run.raw_results[i].parts) + 1
     IN parse_run' =
          [parse_run EXCEPT !.raw_results[i].parts =
             Append(@, [thought |-> thought, text |-> PartText(kind, i, j)])]
  /\ UNCHANGED <<batch_vars, pool_vars, retry_vars, builder_vars,
                 validator_vars, input_vars>>

\* extract: both files are read, a difference in length is warned about,
\* and the entries are written to parsed_results.jsonl.
Extract ==
  /\ parse_run.pc = "idle"
  /\ parse_run' =
       [parse_run EXCEPT
          !.pc = "done",
          !.warned = Len(parse_run.batch_requests) # Len(parse_run.raw_results),
          !.parsed_data =
             ExtractFields(parse_run.batch_requests, parse_run.raw_results)]
  /\ UNCHANGED <<batch_vars, pool_vars, retry_vars, builder_vars,
                 validator_vars, input_vars>>

InitParser ==
  /\ bundle_file = <<"bundle">>
  /\ cursor_file = CursorAbsent
  /\ input_exists = TRUE
  /\ BatchQuiet
  /\ PoolQuiet
  /\ RetryQuiet
  /\ BuilderQuiet
  /\ ParserQuiet
  /\ ValidatorQuiet

NextParser ==
  \/ AppendRequest
  \/ AppendResult
  \/ \E thought \in BOOLEAN, kind \in PartKinds : AppendPart(thought, kind)
  \/ Extract

SpecParser == InitParser /\ [][NextParser]_vars

\* C32: extract_fields joins the two streams by position: for m requests
\* and n results it gives min(m, n) entries, the i-th made of the i-th
\* request's custom_id, prompt and system instruction and of the i-th
\* result's thoughts and advisory; a difference between m and n is warned
\* about and extraction is done all the same.
JoinedByPosition ==
  parse_run.pc = "done" =>
    LET m == Len(parse_run.batch_requests)
        n == Len(parse_run.raw_results)
        out == parse_run.parsed_data
    IN /\ Len(out) = (IF m <= n THEN m ELSE n)
       /\ parse_run.warned <=> m # n
       /\ \A i \in 1..Len(out) :
            /\ out[i].custom_id = parse_run.batch_requests[i].custom_id
            /\ out[i].prompt = Strip(parse_run.batch_requests[i].prompt)
            /\ out[i].system_instruction
                 = Strip(parse_run.batch_requests[i].system_instruction)
            /\ out[i].thoughts = ExtractThoughts(parse_run.raw_results[i])
            /\ out[i].advisory = ExtractAdvisory(parse_run.raw_results[i])

C32Witness ==
  /\ parse_run.pc = "done"
  /\ Len(parse_run.batch_requests) = 3
  /\ Len(parse_run.raw_results) = 2
  /\ parse_run.warned
  /\ Len(parse_run.parsed_data) = 2
  /\ parse_run.parsed_data[2].custom_id = <<"2">>
  /\ parse_run.parsed_data[2].advisory = <<"r", "2", "_", "1">>

\* The stripped texts of the parts of a response that are thoughts (or are
\* not), one after the other.
Segments(parts, thought) ==
  Flatten([k \in 1..Len(parts) |->
             IF parts[k].thought = thought THEN Strip(parts[k].text)
             ELSE <<>>])

\* C33: for a response with parts marked as thought, the extracted
\* thoughts are all its thought segments, concatenated, and the advisory
\* is its text that is not thought; for a response with no part marked as
\* thought the thoughts are empty and the advisory is its whole text.
ThoughtsAndAdvisorySplitTheText ==
  parse_run.pc = "done" =>
    \A i \in 1..Len(parse_run.parsed_data) :
      LET parts == parse_run.raw_results[i].parts IN
      /\ parse_run.parsed_data[i].thoughts = Segments(parts, TRUE)
      /\ parse_run.parsed_data[i].advisory = Segments(parts, FALSE)

\* ------------------------------------------- a launch over an older output
\* generate_all is launched over an output file in which an earlier launch
\* recorded item 1.
InitPoolResumed ==
  /\ bundle_file \in UNION {[1..n -> Lines] : n \in 1..PoolLines}
  /\ cursor_file = CursorAbsent
  /\ input_exists = TRUE
  /\ BatchQuiet
  /\ out_file = RecordChunks(1)
  /\ synced = Len(out_file)
  /\ base_len = Len(out_file)
  /\ clock = Epoch
  /\ last_call = 0
  /\ limiter_lock = 0
  /\ file_lock = 0
  /\ gpc = "start"
  /\ work_items = <<>>
  /\ queue = <<>>
  /\ result = [i \in 1..Len(bundle_file) |-> "none"]
  /\ thread = [w \in Workers |-> IdleThread]
  /\ pool_runs = 1
  /\ last_generate = NoCall
  /\ exhausted = {}
  /\ RetryQuiet
  /\ BuilderQuiet
  /\ ParserQuiet
  /\ ValidatorQuiet

SpecPoolResumed == InitPoolResumed /\ [][NextPool]_vars

\* f is the beginning of g.
IsPrefix(f, g) == Len(f) <= Len(g) /\ SubSeq(g, 1, Len(f)) = f

\* C34: a worker-pool run never rewrites the output file: whatever the
\* file holds stays where it is, unchanged, through every step of the run
\* (also when items fail or no work is found), and what a step adds comes
\* after it.
OutputOnlyAppended == [][IsPrefix(out_file, out_file')]_vars

C34Witness ==
  /\ gpc = "returned"
  /\ base_len = 2
  /\ SubSeq(out_file, 1, 2) = RecordChunks(1)
  /\ Len(out_file) = 4
  /\ SubSeq(out_file, 3, 4) = RecordChunks(2)
  /\ result[1] = "false"
  /\ result[2] = "true"

\* ------------------------------------------------- batch file numbering
\* The numbers in the names batch_part_<number> of the files the loop of
\* create_jsonl_batches writes, in the order written: n_reqs is
\* len(current_batch_reqs), batch_counter the number of the next file.
RECURSIVE BatchNumbers(_, _, _, _, _)
BatchNumbers(lines, i, n_reqs, numbers, batch_counter) ==
  IF i > Len(lines)
  THEN IF n_reqs > 0 THEN Append(numbers, batch_counter) ELSE numbers
  ELSE IF ParsesAsJson(lines[i])
       THEN IF n_reqs + 1 >= MAX_REQS_PER_BATCH
            THEN BatchNumbers(lines, i + 1, 0,
                              Append(numbers, batch_counter),
                              batch_counter + 1)
            ELSE BatchNumbers(lines, i + 1, n_reqs + 1, numbers,
                              batch_counter)
       ELSE BatchNumbers(lines, i + 1, n_reqs, numbers, batch_counter)

\* The numbers of the batch files of the run under way.
FileNumbers == BatchNumbers(bundle_file, start_index + 1, 0, <<>>, 1)

\* C35: the batch files create_jsonl_batches returns are numbered 1, 2,
\* ... without a gap, none is empty, every one but possibly the last
\* holds exactly MAX_REQS_PER_BATCH envelopes, and read in number order
\* they hold one envelope per parseable line after the cursor, in the
\* order of the bundle file.
BatchFilesNumberedAndComplete ==
  pc = "loop" =>
    /\ Len(FileNumbers) = Len(files)
    /\ \A k \in 1..Len(files) :
         /\ FileNumbers[k] = k
         /\ files[k] # <<>>
         /\ k < Len(files) => Len(files[k]) = MAX_REQS_PER_BATCH
    /\ ListsInOrder(EnvelopeLines(files), ParseableAfter(start_index))

C35Witness ==
  /\ pc = "loop"
  /\ bundle_file = <<"bundle", "bundle", "bundle">>
  /\ start_index = 0
  /\ FileNumbers = <<1, 2>>
  /\ Len(files[1]) = MAX_REQS_PER_BATCH
  /\ EnvelopeLines(files) = <<1, 2, 3>>
  /\ job_state = "CREATED"

\* ------------------------------------------- the snapshot after build_all
\* The entries of a list after sample was called on each: sample works on
\* the entry it is handed, not on a copy.
SampledEntries(entries) == [k \in 1..Len(entries) |-> Sample(entries[k])]

\* The loaded taxonomies after build_all went over them. The first loop
\* samples every entry of the present independent axes; the region loop
\* samples every region once a combination exists, the crop loop every
\* crop once a region with a language was met. region_payload and
\* crop_payload are copies, so deleting the nested list from them leaves
\* the entries as they are.
SnapshotAfterBuild(tax) ==
  LET first_loop == [g \in DOMAIN tax |->
                       IF g \in DOMAIN tax \ {"crop", "region_lang"}
                       THEN SampledEntries(tax[g]) ELSE tax[g]]
  IN IF ~({"crop", "region_lang"} \subseteq DOMAIN tax) THEN first_loop
     ELSE LET combos == Product(IndependentAxesData(tax, 1))
              regions == combos # <<>>
              crops == /\ regions
                       /\ \E r \in 1..Len(tax["region_lang"]) :
                            Get(Sample(tax["region_lang"][r]),
                                "languages", <<>>) # <<>>
          IN [g \in DOMAIN tax |->
                IF g = "region_lang" /\ regions THEN SampledEntries(tax[g])
                ELSE IF g = "crop" /\ crops THEN SampledEntries(tax[g])
                ELSE first_loop[g]]

\* The lines one independent combination contributes to the bundle file.
LinesPerCombination == NestedCount("region_lang") * NestedCount("crop")

\* C36: build_all and sample leave every entry of the loaded taxonomies as
\* it was (no field added or removed, the nested lists still in place), so
\* each independent combination goes over the same regions, languages,
\* crops and problems in the same order.
EntriesLeftAsLoaded ==
  bpc \in {"returned", "raised"} =>
    /\ SnapshotAfterBuild(taxonomies) = taxonomies
    /\ Built =>
         \A n \in 1..Len(output_file.lines) :
           n + LinesPerCombination <= Len(output_file.lines) =>
             LET a == output_file.lines[n]
                 b == output_file.lines[n + LinesPerCombination]
             IN /\ a["region"] = b["region"]
                /\ a["language"] = b["language"]
                /\ a["crop"] = b["crop"]
                /\ a["stress"] = b["stress"]

C36Witness ==
  /\ Built
  /\ PresentAxes = {"soil_type"}
  /\ Len(taxonomies["soil_type"]) = 2
  /\ LinesPerCombination = 1
  /\ count = 2
  /\ "languages" \in DOMAIN taxonomies["region_lang"][1]
  /\ "languages" \notin DOMAIN output_file.lines[1]["region"]
  /\ "problems" \in DOMAIN taxonomies["crop"][1]
  /\ output_file.lines[1]["soil_type"] # output_file.lines[2]["soil_type"]
  /\ output_file.lines[1]["crop"] = output_file.lines[2]["crop"]

\* ------------------------------------------------ the bundle file is gone
\* Between two launches of the driver the bundle file is removed.
InputRemoved ==
  /\ pc = "start"
  /\ input_exists
  /\ input_exists' = FALSE
  /\ UNCHANGED <<batch_vars, pool_vars, retry_vars, builder_vars,
                 parser_vars, validator_vars>>

\* create_jsonl_batches reads the cursor, finds no input file, logs "Input
\* file not found." and returns False. The driver tests the result against
\* None only, so it goes on to "files, final_cursor_pos = result", and
\* unpacking False raises TypeError, which nothing catches.
InputFileNotFound ==
  /\ pc = "start"
  /\ ~input_exists
  /\ start_index' = GetStartIndex(cursor_file)
  /\ pc' = "raised"
  /\ clean' = FALSE
  /\ UNCHANGED <<bundle_file, cursor_file, files, final_cursor_pos,
                 success_count, job_state, results_saved, runs,
                 rendered_runs, confirmed_lines, prev_run, remote_jobs,
                 uploaded, client_errors>>
  /\ UNCHANGED <<pool_vars, retry_vars, builder_vars,
                 parser_vars, validator_vars, input_vars>>

NextMissingInput ==
  \/ NextBatch
  \/ InputRemoved
  \/ InputFileNotFound

SpecMissingInput == InitBatch /\ [][NextMissingInput]_vars

\* C37: a launch that finds no bundle file ends without an unhandled
\* exception, uploads and submits nothing, and leaves the cursor file as
\* it was.
MissingInputEndsQuietly ==
  [][~input_exists =>
       /\ pc' # "raised"
       /\ uploaded' = uploaded
       /\ remote_jobs' = remote_jobs
       /\ cursor_file' = cursor_file]_vars

\* --------------------------------------- worker pool: a run comes to its end
\* time.sleep of thread w returns: the time is then the one it was to
\* wake at, if not later already.
SleepEnds(w) ==
  /\ gpc = "running"
  /\ thread[w].pc \in {"sleeping", "backoff"}
  /\ thread[w].wake > clock
  /\ clock' = thread[w].wake
  /\ UNCHANGED <<out_file, synced, last_call, limiter_lock, file_lock, gpc,
                 work_items, queue, result, thread, pool_runs, base_len,
                 last_generate, exhausted>>
  /\ UNCHANGED <<batch_vars, retry_vars, builder_vars,
                 parser_vars, validator_vars, input_vars>>

\* The step of thread w, whatever it is; a provider.generate call returns
\* or raises.
ThreadStep(w) ==
  \/ TakeItem(w)
  \/ LimiterEnter(w)
  \/ LimiterReturn(w)
  \/ GenerateReturns(w)
  \/ GenerateRaises(w)
  \/ BackoffOver(w)
  \/ FileLockAcquire(w)
  \/ FlushChunk(w)
  \/ Fsync(w)
  \/ FileLockRelease(w)

NextPoolFair ==
  \/ StartGenerateAll
  \/ \E w \in Workers : ThreadStep(w)
  \/ \E w \in Workers : SleepEnds(w)
  \/ FinishGenerateAll

\* One launch in which the main thread and every pool thread go on
\* running, every sleep ends and every provider call returns or raises.
SpecPoolFair ==
  /\ InitPool
  /\ [][NextPoolFair]_vars
  /\ WF_vars(StartGenerateAll)
  /\ WF_vars(FinishGenerateAll)
  /\ \A w \in Workers : WF_vars(ThreadStep(w))
  /\ \A w \in Workers : WF_vars(SleepEnds(w))

\* The number of places item i is at: waiting in the queue, with a thread,
\* or finished.
PlacesOf(i) ==
  Cardinality({k \in 1..Len(queue) : queue[k] = i})
    + Cardinality({w \in Workers : thread[w].pc # "idle" /\ thread[w].item = i})
    + (IF result[i] \in {"true", "false"} THEN 1 ELSE 0)

\* The work items of the run.
Submitted == {work_items[k] : k \in 1..Len(work_items)}

\* Every submitted item is at one place, no other item is anywhere, at
\* most max_workers items are with the threads, and generate_all has
\* returned only with every item finished: with one record of this run
\* when its task returned True, with none when it returned False.
RunAccountsForItems ==
  /\ gpc \in {"running", "returned"} =>
       /\ \A i \in DOMAIN result :
            PlacesOf(i) = IF i \in Submitted THEN 1 ELSE 0
       /\ Cardinality({i \in DOMAIN result : result[i] = "running"})
            <= max_workers
       /\ \A i \in DOMAIN result :
            result[i] = "running"
              <=> \E w \in Workers : thread[w].pc # "idle" /\ thread[w].item = i
  /\ gpc = "returned" =>
       /\ \A w \in Workers : thread[w].pc = "idle"
       /\ queue = <<>>
       /\ \A i \in Submitted :
            LET n == Cardinality({k \in 1..Len(NewLines) :
                                    NewLines[k] = RecordChunks(i)})
            IN \/ result[i] = "true" /\ n = 1
               \/ result[i] = "false" /\ n = 0

valid_min == 50

weak_min == 30

\* create_batch_files: request file i + 1 holds a request for each bundle
\* of all_bundles[i * BATCH_SIZE : (i + 1) * BATCH_SIZE], its custom_id
\* being str(bundle["id"]); math.ceil(total / BATCH_SIZE) files.
CreateBatchFiles(all_bundles) ==
  LET total_bundles == Len(all_bundles)
      total_batches == (total_bundles + BATCH_SIZE - 1) \div BATCH_SIZE
  IN [i \in 1..total_batches |->
        LET start_idx == (i - 1) * BATCH_SIZE
            end_idx == IF start_idx + BATCH_SIZE < total_bundles
                       THEN start_idx + BATCH_SIZE ELSE total_bundles
        IN [j \in 1..(end_idx - start_idx) |->
              [custom_id |-> Str(all_bundles[start_idx + j]["id"])]]]

\* What the service may put at "confidence": a number, a text that is no
\* number, or null.
ConfidenceValues ==
  {[type |-> "float", value |-> c] : c \in {29, 30, 49, 50}}
    \cup {[type |-> "str", value |-> 0], [type |-> "null", value |-> 0]}

\* The object the service may give for a bundle: with or without a
\* "confidence" key.
Decisions ==
  {[k \in {} |-> 0]}
    \cup {[k \in {"confidence"} |-> c] : c \in ConfidenceValues}

\* The lines a result file may hold for a request file: one per request,
\* either with a candidate whose text parses to {custom_id: decision}, or
\* with none (the item failed, or its text is no JSON).
ResultFiles(request_file) ==
  [1..Len(request_file) ->
     [usable : BOOLEAN, decision : Decisions]]

RECURSIVE ValidationMap(_, _, _)
\* The loop over the lines of the result file: the (bid, decision) pairs of
\* validation_map, in the order of insertion.
ValidationMap(request_file, result_file, j) ==
  IF j > Len(result_file) THEN <<>>
  ELSE IF result_file[j].usable
       THEN <<<<request_file[j].custom_id, result_file[j].decision>>>>
              \o ValidationMap(request_file, result_file, j + 1)
       ELSE ValidationMap(request_file, result_file, j + 1)

\* bundles_map: str(b['id']) -> b
BundlesMap(all_bundles) ==
  [k \in {Str(all_bundles[j]["id"]) : j \in 1..Len(all_bundles)} |->
     all_bundles[CHOOSE j \in 1..Len(all_bundles) :
                   Str(all_bundles[j]["id"]) = k]]

\* confidence = decision.get("confidence", 0.0), then float(confidence),
\* with 0.0 when float raises ValueError or TypeError.
Confidence(decision) ==
  LET confidence == Get(decision, "confidence",
                        [type |-> "float", value |-> 0])
  IN IF confidence.type = "float" THEN confidence.value ELSE 0

\* A slip: the comparisons are strict.
LabelStrict(confidence) ==
  IF confidence > valid_min THEN "VALID"
  ELSE IF confidence > weak_min THEN "WEAK_VALID"
  ELSE "INVALID"

\* The label chosen for a confidence.
Label(confidence) ==
  IF confidence >= valid_min THEN "VALID"
  ELSE IF confidence >= weak_min THEN "WEAK_VALID"
  ELSE "INVALID"

\* The bundle as it is written: with its confidence and label, and with a
\* status when it is invalid.
Annotated(bundle, decision) ==
  LET confidence == Confidence(decision)
      label == Label(confidence)
      b == Put(Put(bundle, "validation_confidence", confidence),
               "validation_label", label)
  IN IF label = "INVALID" THEN Put(b, "validation_status", "INVALID") ELSE b

RECURSIVE Written(_, _, _)
\* The bundles the loop over validation_map writes to the file of a label,
\* in order; a bid that is not in bundles_map is passed over.
Written(pairs, bundles_map, label) ==
  IF pairs = <<>> THEN <<>>
  ELSE LET bid == Head(pairs)[1]
           decision == Head(pairs)[2]
           rest == Written(Tail(pairs), bundles_map, label)
       IN IF bid \in DOMAIN bundles_map
             /\ Label(Confidence(decision)) = label
          THEN <<Annotated(bundles_map[bid], decision)>> \o rest
          ELSE rest

\* A slip: the loop of run_pipeline ends at the first batch without result.
AdvanceStopping(v) ==
  IF v.index < Len(v.request_files)
     /\ (v.returned = <<>> \/ v.returned[Len(v.returned)] = "result")
  THEN [v EXCEPT !.index = @ + 1, !.called = Append(@, v.index + 1),
                 !.pc = "upload"]
  ELSE [v EXCEPT !.pc = "done"]

\* The loop of run_pipeline goes to the next request file and calls
\* process_single_batch for it, or ends after the last one.
Advance(v) ==
  IF v.index < Len(v.request_files)
  THEN [v EXCEPT !.index = @ + 1, !.called = Append(@, v.index + 1),
                 !.pc = "upload"]
  ELSE [v EXCEPT !.pc = "done"]

\* process_single_batch returns None or False: run_pipeline logs
\* "Skipping parsing" and goes on.
ReturnsNoFile(v, why) ==
  Advance([v EXCEPT !.returned = Append(@, why), !.polls = 0])

\* run_pipeline up to the first call of process_single_batch: the output
\* files are emptied, the input file of n bundles is split into request
\* files; with no request file it returns.
RunPipeline ==
  /\ validation.pc = "idle"
  /\ \E n \in 0..MaxBundles :
       LET all_bundles == [i \in 1..n |-> [id |-> i]]
           v == [validation EXCEPT
                   !.all_bundles = all_bundles,
                   !.request_files = CreateBatchFiles(all_bundles),
                   !.valid_output = <<>>,
                   !.weak_valid_output = <<>>,
                   !.invalid_output = <<>>]
       IN validation' = IF v.request_files = <<>>
                        THEN [v EXCEPT !.pc = "returned"]
                        ELSE Advance(v)
  /\ UNCHANGED <<batch_vars, pool_vars, retry_vars, builder_vars,
                 parser_vars, input_vars>>

\* client.files.upload returns.
UploadReturns ==
  /\ validation.pc = "upload"
  /\ validation' = [validation EXCEPT !.pc = "create"]
  /\ UNCHANGED <<batch_vars, pool_vars, retry_vars, builder_vars,
                 parser_vars, input_vars>>

\* client.files.upload raises: "Upload failed", return None.
UploadRaises ==
  /\ validation.pc = "upload"
  /\ validation' = ReturnsNoFile(validation, "upload_failed")
  /\ UNCHANGED <<batch_vars, pool_vars, retry_vars, builder_vars,
                 parser_vars, input_vars>>

\* client.batches.create returns the job.
CreateReturns ==
  /\ validation.pc = "create"
  /\ validation' = [validation EXCEPT !.pc = "poll",
                                      !.jobs = Append(@, validation.index)]
  /\ UNCHANGED <<batch_vars, pool_vars, retry_vars, builder_vars,
                 parser_vars, input_vars>>

\* client.batches.create raises: "Job creation failed", return None.
CreateRaises ==
  /\ validation.pc = "create"
  /\ validation' = ReturnsNoFile(validation, "create_failed")
  /\ UNCHANGED <<batch_vars, pool_vars, retry_vars, builder_vars,
                 parser_vars, input_vars>>

\* client.batches.get finds the job unfinished: time.sleep(180), again.
PollUnfinished ==
  /\ validation.pc = "poll"
  /\ validation.polls < MaxPolls
  /\ validation' = [validation EXCEPT !.polls = @ + 1]
  /\ UNCHANGED <<batch_vars, pool_vars, retry_vars, builder_vars,
                 parser_vars, input_vars>>

\* client.batches.get raises: "Polling error (retrying)", time.sleep(60),
\* again.
PollRaises ==
  /\ validation.pc = "poll"
  /\ validation.polls < MaxPolls
  /\ validation' = [validation EXCEPT !.polls = @ + 1]
  /\ UNCHANGED <<batch_vars, pool_vars, retry_vars, builder_vars,
                 parser_vars, input_vars>>

\* The job is found JOB_STATE_SUCCEEDED: the loop is left.
PollFindsSucceeded ==
  /\ validation.pc = "poll"
  /\ validation' = [validation EXCEPT !.pc = "download", !.polls = 0]
  /\ UNCHANGED <<batch_vars, pool_vars, retry_vars, builder_vars,
                 parser_vars, input_vars>>

\* The job is found JOB_STATE_FAILED or JOB_STATE_CANCELLED: return False.
PollFindsFailed ==
  /\ validation.pc = "poll"
  /\ validation' = ReturnsNoFile(validation, "job_failed")
  /\ UNCHANGED <<batch_vars, pool_vars, retry_vars, builder_vars,
                 parser_vars, input_vars>>

\* client.files.download returns and the result file is written:
\* process_single_batch returns its name.
DownloadReturns ==
  /\ validation.pc = "download"
  /\ \E lines \in ResultFiles(validation.request_files[validation.index]) :
       validation' = [validation EXCEPT !.pc = "parse",
                                        !.result_file = lines,
                                        !.returned = Append(@, "result")]
  /\ UNCHANGED <<batch_vars, pool_vars, retry_vars, builder_vars,
                 parser_vars, input_vars>>

\* The download raises: "Failed to download results", return None.
DownloadRaises ==
  /\ validation.pc = "download"
  /\ validation' = ReturnsNoFile(validation, "download_failed")
  /\ UNCHANGED <<batch_vars, pool_vars, retry_vars, builder_vars,
                 parser_vars, input_vars>>

\* parse_and_append_results(res_file, bundles_map), and the loop of
\* run_pipeline goes on.
ParseAndAppendResults ==
  /\ validation.pc = "parse"
  /\ LET v == validation
         pairs == ValidationMap(v.request_files[v.index], v.result_file, 1)
         bundles_map == BundlesMap(v.all_bundles)
     IN validation' =
          Advance([v EXCEPT
            !.parsed = Append(@, v.index),
            !.before = [valid |-> Len(v.valid_output),
                        weak |-> Len(v.weak_valid_output),
                        invalid |-> Len(v.invalid_output)],
            !.valid_output = @ \o Written(pairs, bundles_map, "VALID"),
            !.weak_valid_output =
               @ \o Written(pairs, bundles_map, "WEAK_VALID"),
            !.invalid_output = @ \o Written(pairs, bundles_map, "INVALID")])
  /\ UNCHANGED <<batch_vars, pool_vars, retry_vars, builder_vars,
                 parser_vars, input_vars>>

InitValidator ==
  /\ bundle_file = <<"bundle">>
  /\ cursor_file = CursorAbsent
  /\ input_exists = TRUE
  /\ BatchQuiet
  /\ PoolQuiet
  /\ RetryQuiet
  /\ BuilderQuiet
  /\ ParserQuiet
  /\ ValidatorQuiet

NextValidator ==
  \/ RunPipeline
  \/ UploadReturns
  \/ UploadRaises
  \/ CreateReturns
  \/ CreateRaises
  \/ PollUnfinished
  \/ PollRaises
  \/ PollFindsSucceeded
  \/ PollFindsFailed
  \/ DownloadReturns
  \/ DownloadRaises
  \/ ParseAndAppendResults

SpecValidator == InitValidator /\ [][NextValidator]_vars

\* The indexes k of the calls that returned a result file, in order.
RECURSIVE WithResult(_, _)
WithResult(returned, k) ==
  IF k > Len(returned) THEN <<>>
  ELSE IF returned[k] = "result"
       THEN <<k>> \o WithResult(returned, k + 1)
       ELSE WithResult(returned, k + 1)

\* C39: run_pipeline calls process_single_batch for the request files 1,
\* 2, ... in that order, each once and one at a time; a job is created at
\* most once per file; whatever way a batch fails, the later files are
\* still processed, so the run ends only after the last one; and
\* parse_and_append_results is called exactly for the batches whose result
\* file was returned.
EveryBatchSubmittedInTurn ==
  LET v == validation
      total == Len(v.request_files)
      open == IF v.pc \in {"upload", "create", "poll", "download"}
              THEN 1 ELSE 0
  IN /\ Len(v.called) <= total
     /\ \A k \in 1..Len(v.called) : v.called[k] = k
     /\ Len(v.returned) + open = Len(v.called)
     /\ \A k \in 1..Len(v.jobs) :
          /\ v.jobs[k] \in 1..Len(v.called)
          /\ k > 1 => v.jobs[k - 1] < v.jobs[k]
          /\ v.jobs[k] <= Len(v.returned) =>
               v.returned[v.jobs[k]] \in {"job_failed", "download_failed",
                                          "result"}
     /\ v.pc = "done" => Len(v.returned) = total
     /\ v.parsed = IF v.pc = "parse"
                   THEN SubSeq(WithResult(v.returned, 1), 1,
                               Len(WithResult(v.returned, 1)) - 1)
                   ELSE WithResult(v.returned, 1)

C39Witness ==
  /\ validation.pc = "done"
  /\ validation.returned = <<"upload_failed", "result">>
  /\ validation.jobs = <<2>>
  /\ validation.parsed = <<2>>

\* The bundles appended to an output file by the latest call of
\* parse_and_append_results.
Appended(file, len_before) == SubSeq(file, len_before + 1, Len(file))

\* The number of bundles with custom_id bid in a list of written bundles.
Occurrences(bundles, bid) ==
  Cardinality({k \in 1..Len(bundles) : Str(bundles[k]["id"]) = bid})

====
